---- MODULE Spec2Model ----
(***************************************************************************)
(* Per-connection session bridges of the voice-agent repository.           *)
(*                                                                         *)
(* The repository holds four bridge variants; each is modelled as its own  *)
(* state machine over its own variables, and the variable `bridge` says    *)
(* which variant a behaviour runs:                                         *)
(*   "queue"    src/unnamed/part_000  queueing tool bridge (OpenAI)        *)
(*   "proxy"    src/unnamed/part_001  schema-validating proxy              *)
(*   "tools"    src/unnamed/part_002 + src/src/tools.ts  tool bridge       *)
(*   "deepgram" src/src/server.ts     Deepgram STT / Mistral / TTS bridge  *)
(* One handler of the code is one action: Node runs a handler to its first *)
(* real await without interleaving, and the continuation after the await   *)
(* is a second action.                                                     *)
(***************************************************************************)
EXTENDS Naturals, Integers, Sequences, FiniteSets, TLC

\* ------------------------------------------------------------------ bounds
\* client frames received per session
MaxClientMsgs == 3
\* upstream events received per session
MaxUpEvents == 4
\* utterances the speech service reports per session
MaxTurns == 2
\* tool calls in one reply of the language model
MaxCalls == 1

\* ------------------------------------------------------- shared vocabulary
CallIds == {"c1", "c2"}
\* the tool names the model may announce: one implemented, one not
ToolNames == {"gmail_search", "delete_everything"}
\* p?.name when no announcement recorded a name
Undefined == "undefined"
\* argument fragments as streamed: `{"q":` and `"test"}`
Frags == {"{q:", "test}"}
\* the one complete JSON text over Frags
CompleteArgs == <<"{q:", "test}">>
\* parsed argument sets
EmptyArgs == "{}"
ParsedArgs == "{q:test}"

\* ws readyState
CONNECTING == "CONNECTING"
OPEN == "OPEN"
CLOSING == "CLOSING"
CLOSED == "CLOSED"

VARIABLES
    bridge,
    \* ---- src/unnamed/part_000
    openai, qclient, openaiReady, clientQueue, pending,
    qInflight, qInvoked, openaiSent, qForwarded, qSeq, qUp,
    \* history: the tool-call events received from upstream, in order; the
    \* number of client frames that had arrived when upstream opened
    qLog, qOpenedAt,
    \* ---- src/unnamed/part_002 with src/src/tools.ts
    openaiWS, clientWS, pendingToolCalls,
    tInflight, tInvoked, openaiWSSent, tForwarded, tSeq, tUp,
    \* history: the tool-call events received from upstream, in order
    tLog,
    \* ---- src/unnamed/part_001 (its message handler is repeated at
    \*      src/src/server.ts:584-668)
    upstream, pclient, closed, pingInterval, uncaught,
    upstreamSent, pclientOut, pSeq, pUp,
    \* history: how often the body of closeBoth has run
    pTeardowns,
    \* ---- src/src/server.ts:83-552 (Deepgram STT, Mistral, Deepgram TTS)
    state, ws, stt, sttSent, sttOpened, timers, tts, turns, nTurns,
    wsOut, dInvoked, dSeq, dUp,
    \* whether the handshake of the current STT socket has completed
    sttEstablished,
    \* history: the final text of every utterance buffered so far; how
    \* often each finalize trigger claimed a buffer or found it empty; the
    \* arrival indices of the microphone frames; whether an interrupt was
    \* processed since the last finalized turn
    utterances, fin, dAudioIn, interrupted

qVars == <<openai, qclient, openaiReady, clientQueue, pending,
           qInflight, qInvoked, openaiSent, qForwarded, qSeq, qUp, qLog, qOpenedAt>>
tVars == <<openaiWS, clientWS, pendingToolCalls,
           tInflight, tInvoked, openaiWSSent, tForwarded, tSeq, tUp, tLog>>
pVars == <<upstream, pclient, closed, pingInterval, uncaught,
           upstreamSent, pclientOut, pSeq, pUp, pTeardowns>>
dHist == <<utterances, fin, dAudioIn, interrupted>>
dVars == <<state, ws, stt, sttSent, sttOpened, timers, tts, turns, nTurns,
           wsOut, dInvoked, dSeq, dUp, sttEstablished, dHist>>
vars == <<bridge, qVars, tVars, pVars, dVars>>

\* ============================================================ JSON helpers
\* JSON.parse of an accumulated argument text: only the complete object
\* parses; any other non-empty concatenation of fragments throws.
JSONparse(text) ==
    IF text = CompleteArgs
    THEN [ok |-> TRUE, value |-> ParsedArgs]
    ELSE [ok |-> FALSE, value |-> EmptyArgs]

\* a message sent upstream: n is the arrival index of the client frame it
\* stems from (0 when the bridge originates it)
UpMsg(type, n, call_id, output) ==
    [type |-> type, n |-> n, call_id |-> call_id, output |-> output]

NoCall == "-"
NoOutput == "-"

\* ==================================================== src/unnamed/part_000
\* type PendingCall = { name?: string; args: string }; absent entries are
\* marked present = FALSE
NoPending == [present |-> FALSE, name |-> Undefined, args |-> <<>>]

\* tools with an implementation in the dispatch of part_000
QImplemented == {"gmail_search", "gmail_read"}

\* openai.send(raw): ws drops a frame sent on a socket that is no longer
\* open (no callback is given, so nothing is thrown)
openaiSend(ch, rs, raw) ==
    IF rs = OPEN THEN [ch EXCEPT !.sent = Append(@, raw)] ELSE ch

\* a send that queues whatever the state of the upstream socket
sendToOpenAIQueued(ch, ready, rs, obj) ==
    [ch EXCEPT !.queue = Append(@, obj)]

sendToOpenAI(ch, ready, rs, obj) ==
    IF ready THEN openaiSend(ch, rs, obj)
    ELSE [ch EXCEPT !.queue = Append(@, obj)]

\* for (const item of clientQueue) openai.send(item); clientQueue.length = 0
RECURSIVE qFlushFrom(_, _, _)
qFlushFrom(ch, rs, i) ==
    IF i > Len(ch.queue) THEN [ch EXCEPT !.queue = <<>>]
    ELSE qFlushFrom(openaiSend(ch, rs, ch.queue[i]), rs, i + 1)

\* a flush that starts at the second queued frame
qFlushFromSecond(ch, rs) == qFlushFrom(ch, rs, 2)

qFlush(ch, rs) == qFlushFrom(ch, rs, 1)

QCh == [sent |-> openaiSent, queue |-> clientQueue]

\* forwardToClient / client.send inside try-catch.  An upstream event is
\* forwarded verbatim, so the log names it by its arrival index; the
\* bridge's own {type:"closed"} notice is ClosedNotice.
ClosedNotice == "closed"
forwardToClient(log, rs, obj) ==
    IF rs = OPEN THEN Append(log, obj) ELSE log

\* a parse that hands unparsable text on as it is
qParseArgsUnchecked(p) ==
    IF p.present /\ p.args # <<>>
    THEN (IF JSONparse(p.args).ok THEN JSONparse(p.args).value ELSE "invalid")
    ELSE EmptyArgs

\* args = p?.args ? JSON.parse(p.args) : {}  with catch -> {}
qParseArgs(p) ==
    IF p.present /\ p.args # <<>> /\ JSONparse(p.args).ok
    THEN JSONparse(p.args).value
    ELSE EmptyArgs

\* a report that asks for the next response before it hands over the output
qReportResumeFirst(ch, ready, rs, call_id, output) ==
    sendToOpenAI(
        sendToOpenAI(ch, ready, rs, UpMsg("response.create", 0, NoCall, NoOutput)),
        ready, rs, UpMsg("function_call_output", 0, call_id, output))

\* the two messages that report a call: function_call_output, response.create
qReport(ch, ready, rs, call_id, output) ==
    sendToOpenAI(
        sendToOpenAI(ch, ready, rs,
                     UpMsg("function_call_output", 0, call_id, output)),
        ready, rs, UpMsg("response.create", 0, NoCall, NoOutput))

\* safeClose
qSafeCloseOpenai(rs) == IF rs \in {OPEN, CONNECTING} THEN CLOSING ELSE rs
qSafeCloseClient(rs) == IF rs = OPEN THEN CLOSING ELSE rs

\* client frames
QFrames ==
    { [kind |-> k] : k \in {"binary", "badjson", "interrupt", "json"} }

\* upstream events
QEvents ==
    { [type |-> "response.function_call.created", call_id |-> c,
       name |-> nm, delta |-> ""] : c \in CallIds, nm \in ToolNames }
    \cup
    { [type |-> "response.function_call_arguments.delta", call_id |-> c,
       name |-> "", delta |-> f] : c \in CallIds, f \in Frags }
    \cup
    { [type |-> "response.function_call_arguments.done", call_id |-> c,
       name |-> "", delta |-> ""] : c \in CallIds }
    \cup
    { [type |-> "response.audio.delta", call_id |-> NoCall,
       name |-> "", delta |-> ""] }

QInit ==
    /\ openai = CONNECTING
    /\ qclient = OPEN
    /\ openaiReady = FALSE
    /\ clientQueue = <<>>
    /\ pending = [c \in CallIds |-> NoPending]
    /\ qInflight = <<>>
    /\ qInvoked = <<>>
    /\ openaiSent = <<>>
    /\ qForwarded = <<>>
    /\ qSeq = 0
    /\ qUp = 0
    /\ qLog = <<>>
    /\ qOpenedAt = 0

\* openai.on("open")
QOpenaiOpen ==
    /\ bridge = "queue"
    /\ openai = CONNECTING
    /\ openai' = OPEN
    /\ openaiReady' = TRUE
    /\ LET ch == qFlush(sendToOpenAI(QCh, TRUE, OPEN,
                                     UpMsg("session.update", 0, NoCall, NoOutput)),
                        OPEN)
       IN /\ openaiSent' = ch.sent
          /\ clientQueue' = ch.queue
    /\ UNCHANGED <<tVars, pVars, dVars>>
    /\ qOpenedAt' = qSeq
    /\ UNCHANGED <<bridge, qLog, qclient, pending, qInflight, qInvoked,
                   qForwarded, qSeq, qUp>>

\* client.on("message")
QClientMessage(frame) ==
    /\ bridge = "queue"
    /\ qclient = OPEN
    /\ qSeq < MaxClientMsgs
    /\ qSeq' = qSeq + 1
    /\ LET n == qSeq + 1
           ch == CASE frame.kind = "binary" ->
                        IF openaiReady
                        THEN openaiSend(QCh, openai, UpMsg("binary", n, NoCall, NoOutput))
                        ELSE [QCh EXCEPT !.queue =
                                  Append(@, UpMsg("binary", n, NoCall, NoOutput))]
                   [] frame.kind = "badjson" -> QCh
                   [] frame.kind = "interrupt" ->
                        sendToOpenAI(QCh, openaiReady, openai,
                                     UpMsg("response.cancel", n, NoCall, NoOutput))
                   [] OTHER ->
                        sendToOpenAI(QCh, openaiReady, openai,
                                     UpMsg("json", n, NoCall, NoOutput))
       IN /\ openaiSent' = ch.sent
          /\ clientQueue' = ch.queue
    /\ UNCHANGED <<tVars, pVars, dVars>>
    /\ UNCHANGED <<bridge, qLog, qOpenedAt, openai, qclient, openaiReady, pending, qInflight,
                   qInvoked, qForwarded, qUp>>

\* openai.on("message"): 1) response.function_call.created
qOnCreated(evt) ==
    /\ pending' = [pending EXCEPT ![evt.call_id] =
                       [present |-> TRUE, name |-> evt.name, args |-> <<>>]]
    /\ UNCHANGED <<qInflight, qInvoked, openaiSent, clientQueue, qForwarded>>

\* an accumulation that puts the new fragment first
qOnDeltaPrepend(evt) ==
    /\ pending' = [pending EXCEPT ![evt.call_id] =
                       [present |-> TRUE, name |-> @.name,
                        args |-> <<evt.delta>> \o @.args]]
    /\ UNCHANGED <<qInflight, qInvoked, openaiSent, clientQueue, qForwarded>>

\* 2) response.function_call_arguments.delta
qOnDelta(evt) ==
    /\ pending' = [pending EXCEPT ![evt.call_id] =
                       [present |-> TRUE, name |-> @.name,
                        args |-> Append(@.args, evt.delta)]]
    /\ UNCHANGED <<qInflight, qInvoked, openaiSent, clientQueue, qForwarded>>

\* 3) response.function_call_arguments.done, up to the await of the tool
qOnDone(evt) ==
    LET p == pending[evt.call_id]
        args == qParseArgs(p)
    IN IF p.name \in QImplemented
       THEN /\ qInflight' = Append(qInflight,
                                   [call_id |-> evt.call_id, name |-> p.name,
                                    args |-> args])
            /\ qInvoked' = Append(qInvoked,
                                  [call_id |-> evt.call_id, name |-> p.name,
                                   args |-> args])
            /\ UNCHANGED <<pending, openaiSent, clientQueue, qForwarded>>
       ELSE /\ LET ch == qReport(QCh, openaiReady, openai, evt.call_id,
                                 "not_implemented")
               IN /\ openaiSent' = ch.sent
                  /\ clientQueue' = ch.queue
            /\ UNCHANGED <<pending, qInflight, qInvoked, qForwarded>>

\* every other event: forwardToClient(evt)
qOnOther(evt) ==
    /\ qForwarded' = forwardToClient(qForwarded, qclient, qUp + 1)
    /\ UNCHANGED <<pending, qInflight, qInvoked, openaiSent, clientQueue>>

QOpenaiMessage(evt) ==
    /\ bridge = "queue"
    /\ openai = OPEN
    /\ qUp < MaxUpEvents
    /\ qUp' = qUp + 1
    /\ CASE evt.type = "response.function_call.created" -> qOnCreated(evt)
         [] evt.type = "response.function_call_arguments.delta" -> qOnDelta(evt)
         [] evt.type = "response.function_call_arguments.done" -> qOnDone(evt)
         [] OTHER -> qOnOther(evt)
    /\ UNCHANGED <<tVars, pVars, dVars>>
    /\ qLog' = IF evt.call_id = NoCall THEN qLog ELSE Append(qLog, evt)
    /\ UNCHANGED <<bridge, qOpenedAt, openai, qclient, openaiReady, qSeq>>

\* the awaited gmailSearch / gmailRead settles: the rest of the done handler
QToolReturn(i, outcome) ==
    /\ bridge = "queue"
    /\ i \in 1..Len(qInflight)
    /\ LET t == qInflight[i]
           ch == qReport(QCh, openaiReady, openai, t.call_id,
                         IF outcome = "ok" THEN "result" ELSE "error")
       IN /\ openaiSent' = ch.sent
          /\ clientQueue' = ch.queue
    /\ qInflight' = [j \in 1..(Len(qInflight) - 1) |->
                        IF j < i THEN qInflight[j] ELSE qInflight[j + 1]]
    /\ UNCHANGED <<tVars, pVars, dVars>>
    /\ UNCHANGED <<bridge, qLog, qOpenedAt, openai, qclient, openaiReady, pending, qInvoked,
                   qForwarded, qSeq, qUp>>

\* openai.on("close")
QOpenaiClose ==
    /\ bridge = "queue"
    /\ openai # CLOSED
    /\ openai' = CLOSED
    /\ qForwarded' = forwardToClient(qForwarded, qclient, ClosedNotice)
    /\ qclient' = qSafeCloseClient(qclient)
    /\ UNCHANGED <<tVars, pVars, dVars>>
    /\ UNCHANGED <<bridge, qLog, qOpenedAt, openaiReady, clientQueue, pending, qInflight,
                   qInvoked, openaiSent, qSeq, qUp>>

\* openai.on("error", safeClose)
QOpenaiError ==
    /\ bridge = "queue"
    /\ openai \in {CONNECTING, OPEN}
    /\ openai' = qSafeCloseOpenai(openai)
    /\ qclient' = qSafeCloseClient(qclient)
    /\ UNCHANGED <<tVars, pVars, dVars>>
    /\ UNCHANGED <<bridge, qLog, qOpenedAt, openaiReady, clientQueue, pending, qInflight,
                   qInvoked, openaiSent, qForwarded, qSeq, qUp>>

\* client.on("close", safeClose) / client.on("error", safeClose)
QClientClose ==
    /\ bridge = "queue"
    /\ qclient # CLOSED
    /\ qclient' = CLOSED
    /\ openai' = qSafeCloseOpenai(openai)
    /\ UNCHANGED <<tVars, pVars, dVars>>
    /\ UNCHANGED <<bridge, qLog, qOpenedAt, openaiReady, clientQueue, pending, qInflight,
                   qInvoked, openaiSent, qForwarded, qSeq, qUp>>

\* ======================== src/unnamed/part_002 with src/src/tools.ts
\* tools runToolByName implements (tools.ts switch)
TImplemented == {"gmail_search"}

\* openaiWS.send(...): dropped by ws when the socket is no longer open
openaiWSSend(sent, rs, raw) == IF rs = OPEN THEN Append(sent, raw) ELSE sent

\* a report that hands over the output and does not ask for a response
sendToolResultWithoutResume(sent, rs, callId, resultObj) ==
    openaiWSSend(sent, rs, UpMsg("function_call_output", 0, callId, resultObj))

\* tools.ts sendToolResultBackToModel: function_call_output, response.create
sendToolResultBackToModel(sent, rs, callId, resultObj) ==
    openaiWSSend(
        openaiWSSend(sent, rs, UpMsg("function_call_output", 0, callId, resultObj)),
        rs, UpMsg("response.create", 0, NoCall, NoOutput))

\* clientWS.readyState === WebSocket.OPEN && clientWS.send(raw)
tForward(log, rs, n) == IF rs = OPEN THEN Append(log, n) ELSE log

\* parsedArgs = entry.argsText ? JSON.parse(entry.argsText) : {}, catch -> {}
tParseArgs(entry) ==
    IF entry.args # <<>> /\ JSONparse(entry.args).ok
    THEN JSONparse(entry.args).value
    ELSE EmptyArgs

\* upstream events of part_002
TEvents ==
    { [type |-> "response.output_item.added", call_id |-> c,
       name |-> nm, delta |-> ""] : c \in CallIds, nm \in ToolNames }
    \cup
    { [type |-> "response.function_call.arguments.delta", call_id |-> c,
       name |-> "", delta |-> f] : c \in CallIds, f \in Frags }
    \cup
    { [type |-> ty, call_id |-> c, name |-> "", delta |-> ""] :
         ty \in {"response.function_call.arguments.done",
                 "response.output_item.done"}, c \in CallIds }
    \cup
    { [type |-> "response.audio.delta", call_id |-> NoCall,
       name |-> "", delta |-> ""] }

TInit ==
    /\ openaiWS = CONNECTING
    /\ clientWS = OPEN
    /\ pendingToolCalls = [c \in CallIds |-> NoPending]
    /\ tInflight = <<>>
    /\ tInvoked = <<>>
    /\ openaiWSSent = <<>>
    /\ tForwarded = <<>>
    /\ tSeq = 0
    /\ tUp = 0
    /\ tLog = <<>>

\* openaiWS.on("open"): session.update upstream, ready to the client
TOpenaiOpen ==
    /\ bridge = "tools"
    /\ openaiWS = CONNECTING
    /\ openaiWS' = OPEN
    /\ openaiWSSent' = openaiWSSend(openaiWSSent, OPEN,
                                    UpMsg("session.update", 0, NoCall, NoOutput))
    /\ tForwarded' = IF clientWS = OPEN THEN Append(tForwarded, "ready")
                     ELSE tForwarded
    /\ UNCHANGED <<qVars, pVars, dVars>>
    /\ UNCHANGED <<bridge, tLog, clientWS, pendingToolCalls, tInflight, tInvoked,
                   tSeq, tUp>>

\* clientWS.on("message"): tunnel when upstream is open, else warn and drop
TClientMessage ==
    /\ bridge = "tools"
    /\ clientWS = OPEN
    /\ tSeq < MaxClientMsgs
    /\ tSeq' = tSeq + 1
    /\ openaiWSSent' = IF openaiWS = OPEN
                       THEN Append(openaiWSSent,
                                   UpMsg("raw", tSeq + 1, NoCall, NoOutput))
                       ELSE openaiWSSent
    /\ UNCHANGED <<qVars, pVars, dVars>>
    /\ UNCHANGED <<bridge, tLog, openaiWS, clientWS, pendingToolCalls, tInflight,
                   tInvoked, tForwarded, tUp>>

\* 1) response.output_item.added for a function_call
tOnAdded(evt) ==
    [pendingToolCalls EXCEPT ![evt.call_id] =
        [present |-> TRUE, name |-> evt.name, args |-> <<>>]]

\* 2) response.function_call.arguments.delta
tOnDelta(evt) ==
    IF pendingToolCalls[evt.call_id].present
    THEN [pendingToolCalls EXCEPT ![evt.call_id].args = Append(@, evt.delta)]
    ELSE pendingToolCalls

\* 3) the guard of the tool execution: callId && entry && entry.name
tShouldRun(evt) ==
    /\ evt.type \in {"response.function_call.arguments.done",
                     "response.output_item.done"}
    /\ pendingToolCalls[evt.call_id].present
    /\ pendingToolCalls[evt.call_id].name # Undefined

\* openaiWS.on("message"), up to the first real await
TOpenaiMessage(evt) ==
    /\ bridge = "tools"
    /\ openaiWS = OPEN
    /\ tUp < MaxUpEvents
    /\ tUp' = tUp + 1
    /\ LET n == tUp + 1
           entry == pendingToolCalls[evt.call_id]
       IN CASE evt.type = "response.output_item.added" ->
                 /\ pendingToolCalls' = tOnAdded(evt)
                 /\ tForwarded' = tForward(tForwarded, clientWS, n)
                 /\ UNCHANGED <<tInflight, tInvoked, openaiWSSent>>
            [] evt.type = "response.function_call.arguments.delta" ->
                 /\ pendingToolCalls' = tOnDelta(evt)
                 /\ tForwarded' = tForward(tForwarded, clientWS, n)
                 /\ UNCHANGED <<tInflight, tInvoked, openaiWSSent>>
            [] tShouldRun(evt) /\ entry.name \in TImplemented ->
                 \* await runToolByName -> await gmailSearch: suspended
                 /\ tInflight' = Append(tInflight,
                       [call_id |-> evt.call_id, name |-> entry.name,
                        args |-> tParseArgs(entry), n |-> n])
                 /\ tInvoked' = Append(tInvoked,
                       [call_id |-> evt.call_id, name |-> entry.name,
                        args |-> tParseArgs(entry)])
                 /\ UNCHANGED <<pendingToolCalls, openaiWSSent, tForwarded>>
            [] tShouldRun(evt) /\ entry.name \notin TImplemented ->
                 \* runToolByName throws "Unknown tool": catch, finally, forward
                 /\ tInvoked' = Append(tInvoked,
                       [call_id |-> evt.call_id, name |-> entry.name,
                        args |-> tParseArgs(entry)])
                 /\ openaiWSSent' = sendToolResultBackToModel(
                       openaiWSSent, openaiWS, evt.call_id, "error")
                 /\ pendingToolCalls' =
                       [pendingToolCalls EXCEPT ![evt.call_id] = NoPending]
                 /\ tForwarded' = tForward(tForwarded, clientWS, n)
                 /\ UNCHANGED tInflight
            [] OTHER ->
                 /\ tForwarded' = tForward(tForwarded, clientWS, n)
                 /\ UNCHANGED <<pendingToolCalls, tInflight, tInvoked,
                                openaiWSSent>>
    /\ UNCHANGED <<qVars, pVars, dVars>>
    /\ tLog' = IF evt.call_id = NoCall THEN tLog ELSE Append(tLog, evt)
    /\ UNCHANGED <<bridge, openaiWS, clientWS, tSeq>>

\* the awaited gmailSearch settles: try / catch / finally, then the forward
TToolReturn(i, outcome) ==
    /\ bridge = "tools"
    /\ i \in 1..Len(tInflight)
    /\ LET t == tInflight[i]
       IN /\ openaiWSSent' = sendToolResultBackToModel(
                openaiWSSent, openaiWS, t.call_id,
                IF outcome = "ok" THEN "result" ELSE "error")
          /\ pendingToolCalls' = [pendingToolCalls EXCEPT ![t.call_id] = NoPending]
          /\ tForwarded' = tForward(tForwarded, clientWS, t.n)
    /\ tInflight' = [j \in 1..(Len(tInflight) - 1) |->
                        IF j < i THEN tInflight[j] ELSE tInflight[j + 1]]
    /\ UNCHANGED <<qVars, pVars, dVars>>
    /\ UNCHANGED <<bridge, tLog, openaiWS, clientWS, tInvoked, tSeq, tUp>>

\* closeBoth, registered for close and error of both sockets
TOpenaiClose ==
    /\ bridge = "tools"
    /\ openaiWS # CLOSED
    /\ openaiWS' = CLOSED
    /\ clientWS' = IF clientWS = OPEN THEN CLOSING ELSE clientWS
    /\ UNCHANGED <<qVars, pVars, dVars>>
    /\ UNCHANGED <<bridge, tLog, pendingToolCalls, tInflight, tInvoked, openaiWSSent,
                   tForwarded, tSeq, tUp>>

TClientClose ==
    /\ bridge = "tools"
    /\ clientWS # CLOSED
    /\ clientWS' = CLOSED
    /\ openaiWS' = IF openaiWS \in {CONNECTING, OPEN} THEN CLOSING ELSE openaiWS
    /\ UNCHANGED <<qVars, pVars, dVars>>
    /\ UNCHANGED <<bridge, tLog, pendingToolCalls, tInflight, tInvoked, openaiWSSent,
                   tForwarded, tSeq, tUp>>

\* ==================================================== src/unnamed/part_001
VOICE == "alloy"
OUTPUT_AUDIO_FORMAT == "opus"

\* JSON objects are functions from keys to values; values are strings, a
\* JSON number being written "#5"
EmptyObj == [k \in {} |-> ""]
Absent == "absent"
IsString(v) == v \in {"", "be brief", "sess_1"}

\* a parsed client text frame.  response / session: t says what the field
\* holds ("absent", "object", "string"), o is the object when it is one
PValue(isObject, type, instructions, response, session) ==
    [kind |-> "value", isObject |-> isObject, type |-> type,
     sessionId |-> Absent, instructions |-> instructions,
     response |-> response, session |-> session]

NoField == [t |-> "absent", o |-> EmptyObj]
ObjField(o) == [t |-> "object", o |-> o]
StrField == [t |-> "string", o |-> EmptyObj]

\* google.ts:232-236  SessionInit
SessionInit(v) ==
    /\ v.isObject /\ v.type = "session.init"
    /\ (v.sessionId = Absent \/ IsString(v.sessionId))
    /\ (v.instructions = Absent \/ IsString(v.instructions))
\* google.ts:238-244  Interrupt, Commit
Interrupt(v) == v.isObject /\ v.type = "interrupt"
Commit(v) == v.isObject /\ v.type = "commit"
\* google.ts:246-250  ResponseCreate: response is an optional record
ResponseCreate(v) ==
    /\ v.isObject /\ v.type = "response.create"
    /\ v.response.t \in {"absent", "object"}
\* google.ts:252-255  SessionUpdate: session is a required record
SessionUpdate(v) ==
    /\ v.isObject /\ v.type = "session.update"
    /\ v.session.t = "object"
\* google.ts:258-264  ClientMessageSchema.safeParse(parsed).success
ClientMessageSchema(v) ==
    \/ SessionInit(v)
    \/ Interrupt(v)
    \/ Commit(v)
    \/ ResponseCreate(v)
    \/ SessionUpdate(v)

\* the client frames of the proxy
PFrames ==
    { [kind |-> "binary", isObject |-> FALSE, type |-> "", sessionId |-> Absent,
       instructions |-> Absent, response |-> NoField, session |-> NoField],
      [kind |-> "badjson", isObject |-> FALSE, type |-> "", sessionId |-> Absent,
       instructions |-> Absent, response |-> NoField, session |-> NoField],
      PValue(FALSE, "", Absent, NoField, NoField),
      PValue(TRUE, "delete_all", Absent, NoField, NoField),
      PValue(TRUE, "session.init", Absent, NoField, NoField),
      PValue(TRUE, "session.init", "be brief", NoField, NoField),
      PValue(TRUE, "session.init", "", NoField, NoField),
      PValue(TRUE, "session.init", "#5", NoField, NoField),
      PValue(TRUE, "interrupt", Absent, NoField, NoField),
      PValue(TRUE, "commit", Absent, NoField, NoField),
      PValue(TRUE, "response.create", Absent, NoField, NoField),
      PValue(TRUE, "response.create", Absent,
             ObjField([k \in {"voice"} |-> "verse"]), NoField),
      PValue(TRUE, "response.create", Absent,
             ObjField([k \in {"temperature"} |-> "#1"]), NoField),
      PValue(TRUE, "response.create", Absent, StrField, NoField),
      PValue(TRUE, "session.update", Absent, NoField,
             ObjField([k \in {"voice"} |-> "verse"])),
      PValue(TRUE, "session.update", Absent, NoField, NoField) }

\* a message sent upstream by the proxy: n is the arrival index of the
\* client frame it stems from, audio its base64 text, body its object
NoAudio == [enc |-> "none", of |-> 0]
Base64(n) == [enc |-> "base64", of |-> n]
PMsg(type, n, audio, body) ==
    [type |-> type, n |-> n, audio |-> audio, body |-> body]

\* an event sent to the client: n is the arrival index of what caused it
POut(type, n, message) == [type |-> type, n |-> n, message |-> message]

\* safeSend(ws, obj): only when the socket is open
safeSend(out, rs, obj) == IF rs = OPEN THEN Append(out, obj) ELSE out

\* { modalities, voice, output_audio_format, ...(msg.response ?? {}) }
ResponseDefaults ==
    [k \in {"modalities", "voice", "output_audio_format"} |->
        CASE k = "modalities" -> "audio,text"
          [] k = "voice" -> VOICE
          [] OTHER -> OUTPUT_AUDIO_FORMAT]

\* a merge in which the defaults win over the caller's fields
pMergeDefaultsWin(response) ==
    LET r == IF response.t = "object" THEN response.o ELSE EmptyObj
    IN [k \in DOMAIN ResponseDefaults \cup DOMAIN r |->
           IF k \in DOMAIN ResponseDefaults THEN ResponseDefaults[k] ELSE r[k]]

pMergeResponse(response) ==
    LET r == IF response.t = "object" THEN response.o ELSE EmptyObj
    IN [k \in DOMAIN ResponseDefaults \cup DOMAIN r |->
           IF k \in DOMAIN r THEN r[k] ELSE ResponseDefaults[k]]

\* what the switch of the message handler sends upstream for a valid
\* message: <<>> when it sends nothing
pControl(msg, n) ==
    CASE msg.type = "session.init" ->
           IF msg.instructions \notin {Absent, ""}
           THEN <<PMsg("session.update", n, NoAudio,
                       [k \in {"instructions"} |-> msg.instructions])>>
           ELSE <<>>
      [] msg.type = "interrupt" ->
           <<PMsg("response.cancel", n, NoAudio, EmptyObj)>>
      [] msg.type = "commit" ->
           <<PMsg("input_audio_buffer.commit", n, NoAudio, EmptyObj)>>
      [] msg.type = "response.create" ->
           <<PMsg("response.create", n, NoAudio, pMergeResponse(msg.response))>>
      [] msg.type = "session.update" ->
           <<PMsg("session.update", n, NoAudio, msg.session.o)>>
      [] OTHER -> <<PMsg(msg.type, n, NoAudio, EmptyObj)>>

\* a handler that passes a message of the wrong shape on to upstream
pHandleUnvalidated(frame, n) ==
    CASE frame.kind = "binary" ->
           [up |-> <<PMsg("input_audio_buffer.append", n, Base64(n), EmptyObj)>>,
            out |-> <<>>]
      [] frame.kind = "badjson" ->
           [up |-> <<>>, out |-> <<POut("error", n, "Invalid JSON from client")>>]
      [] ~ClientMessageSchema(frame) ->
           [up |-> <<PMsg(frame.type, n, NoAudio, EmptyObj)>>,
            out |-> <<POut("error", n, "Invalid message shape")>>]
      [] OTHER -> [up |-> pControl(frame, n), out |-> <<>>]

\* what the handler does with one frame: the messages for upstream and the
\* events for the client
pHandle(frame, n) ==
    CASE frame.kind = "binary" ->
           [up |-> <<PMsg("input_audio_buffer.append", n, Base64(n), EmptyObj)>>,
            out |-> <<>>]
      [] frame.kind = "badjson" ->
           [up |-> <<>>, out |-> <<POut("error", n, "Invalid JSON from client")>>]
      [] ~ClientMessageSchema(frame) ->
           [up |-> <<>>, out |-> <<POut("error", n, "Invalid message shape")>>]
      [] OTHER -> [up |-> pControl(frame, n), out |-> <<>>]

PInit ==
    /\ upstream = CONNECTING
    /\ pclient = OPEN
    /\ closed = FALSE
    /\ pingInterval = TRUE
    /\ uncaught = FALSE
    /\ upstreamSent = <<>>
    /\ pclientOut = <<>>
    /\ pSeq = 0
    /\ pUp = 0
    /\ pTeardowns = 0

\* a closeBoth without the closed flag as guard
closeBothUnguarded(st) ==
    [closed |-> TRUE,
     upstream |-> IF st.upstream \in {CONNECTING, OPEN} THEN CLOSING
                  ELSE st.upstream,
     client |-> IF st.client = OPEN THEN CLOSING ELSE st.client,
     runs |-> st.runs + 1]

\* a closeBoth that closes the upstream socket and leaves the client's open
closeBothUpstreamOnly(st) ==
    IF st.closed THEN st
    ELSE [closed |-> TRUE,
          upstream |-> IF st.upstream \in {CONNECTING, OPEN} THEN CLOSING
                       ELSE st.upstream,
          client |-> st.client,
          runs |-> st.runs + 1]

\* const closeBoth = ...: the sockets after the call; runs counts the
\* executions of the body
closeBoth(st) ==
    IF st.closed THEN st
    ELSE [closed |-> TRUE,
          upstream |-> IF st.upstream \in {CONNECTING, OPEN} THEN CLOSING
                       ELSE st.upstream,
          client |-> IF st.client = OPEN THEN CLOSING ELSE st.client,
          runs |-> st.runs + 1]

PSockets ==
    [closed |-> closed, upstream |-> upstream, client |-> pclient,
     runs |-> pTeardowns]

\* upstream.on("open")
PUpstreamOpen ==
    /\ bridge = "proxy" /\ ~uncaught
    /\ upstream = CONNECTING
    /\ upstream' = OPEN
    /\ upstreamSent' = Append(upstreamSent,
                              PMsg("session.update", 0, NoAudio, EmptyObj))
    /\ pclientOut' = safeSend(pclientOut, pclient, POut("ready", 0, ""))
    /\ UNCHANGED <<qVars, tVars, dVars>>
    /\ UNCHANGED <<bridge, pclient, closed, pingInterval, uncaught, pSeq, pUp,
                   pTeardowns>>

\* client.on("message").  upstream.send on a socket that is still
\* connecting throws (ws), which leaves the handler as an uncaught
\* exception; on a closing or closed socket the frame is dropped.
PClientMessage(frame) ==
    /\ bridge = "proxy" /\ ~uncaught
    /\ pclient = OPEN
    /\ pSeq < MaxClientMsgs
    /\ pSeq' = pSeq + 1
    /\ LET h == pHandle(frame, pSeq + 1)
       IN /\ pclientOut' = IF h.out = <<>> THEN pclientOut
                           ELSE safeSend(pclientOut, pclient, h.out[1])
          /\ upstreamSent' = IF upstream = OPEN THEN upstreamSent \o h.up
                             ELSE upstreamSent
          /\ uncaught' = (h.up # <<>> /\ upstream = CONNECTING)
    /\ UNCHANGED <<qVars, tVars, dVars>>
    /\ UNCHANGED <<bridge, upstream, pclient, closed, pingInterval, pUp,
                   pTeardowns>>

\* upstream.on("message"): client.send(raw) inside try-catch
PUpstreamMessage ==
    /\ bridge = "proxy" /\ ~uncaught
    /\ upstream = OPEN
    /\ pUp < MaxUpEvents
    /\ pUp' = pUp + 1
    /\ pclientOut' = safeSend(pclientOut, pclient, POut("raw", pUp + 1, ""))
    /\ UNCHANGED <<qVars, tVars, dVars>>
    /\ UNCHANGED <<bridge, upstream, pclient, closed, pingInterval, uncaught,
                   upstreamSent, pSeq, pTeardowns>>

\* client.on("close"): clearInterval(pingInterval); closeBoth()
PClientClose ==
    /\ bridge = "proxy" /\ ~uncaught
    /\ pclient # CLOSED
    /\ pingInterval' = FALSE
    /\ LET st == closeBoth([PSockets EXCEPT !.client = CLOSED])
       IN /\ closed' = st.closed
          /\ upstream' = st.upstream
          /\ pclient' = st.client
          /\ pTeardowns' = st.runs
    /\ UNCHANGED <<qVars, tVars, dVars>>
    /\ UNCHANGED <<bridge, uncaught, upstreamSent, pclientOut, pSeq, pUp>>

\* client.on("error"): closeBoth(1011, "client error"); a socket that is
\* closing can still report an error
PClientError ==
    /\ bridge = "proxy" /\ ~uncaught
    /\ pclient \in {OPEN, CLOSING}
    /\ LET st == closeBoth([PSockets EXCEPT !.client = CLOSING])
       IN /\ closed' = st.closed
          /\ upstream' = st.upstream
          /\ pclient' = st.client
          /\ pTeardowns' = st.runs
    /\ UNCHANGED <<qVars, tVars, dVars>>
    /\ UNCHANGED <<bridge, pingInterval, uncaught, upstreamSent, pclientOut,
                   pSeq, pUp>>

\* upstream.on("close"): closeBoth()
PUpstreamClose ==
    /\ bridge = "proxy" /\ ~uncaught
    /\ upstream # CLOSED
    /\ LET st == closeBoth([PSockets EXCEPT !.upstream = CLOSED])
       IN /\ closed' = st.closed
          /\ upstream' = st.upstream
          /\ pclient' = st.client
          /\ pTeardowns' = st.runs
    /\ UNCHANGED <<qVars, tVars, dVars>>
    /\ UNCHANGED <<bridge, pingInterval, uncaught, upstreamSent, pclientOut,
                   pSeq, pUp>>

\* upstream.on("error"): safeSend(client, error); closeBoth(1011, ...).
\* ws reports an error on a socket that was closed while connecting, so a
\* closing socket can still report one
PUpstreamError ==
    /\ bridge = "proxy" /\ ~uncaught
    /\ upstream \in {CONNECTING, OPEN, CLOSING}
    /\ pclientOut' = safeSend(pclientOut, pclient, POut("error", 0, "upstream error"))
    /\ LET st == closeBoth([PSockets EXCEPT !.upstream = CLOSING])
       IN /\ closed' = st.closed
          /\ upstream' = st.upstream
          /\ pclient' = st.client
          /\ pTeardowns' = st.runs
    /\ UNCHANGED <<qVars, tVars, dVars>>
    /\ UNCHANGED <<bridge, pingInterval, uncaught, upstreamSent, pSeq, pUp>>

PNext ==
    \/ PUpstreamOpen
    \/ \E f \in PFrames : PClientMessage(f)
    \/ PUpstreamMessage
    \/ PClientClose
    \/ PClientError
    \/ PUpstreamClose
    \/ PUpstreamError

\* ================================================ src/src/server.ts:83-552
\* tools with an implementation in callMistralWithTools
DImplemented == {"gmail_search", "gmail_read", "gmail_send"}

\* transcripts Deepgram may report, and String.prototype.trim on them
Transcripts == {"", " ", "hi", " bye "}
Trim(t) == CASE t = " " -> "" [] t = " bye " -> "bye" [] OTHER -> t

\* setTimeout handles; 0 is null
TimerIds == 1..(MaxUpEvents + 1)

\* events sent to the browser with sendJson, counted by type
WsTypes ==
    {"ready", "error", "stt.partial", "stt.final", "session.updated",
     "response.created", "response.content_part.added",
     "response.audio.delta", "response.audio.done",
     "response.audio_transcript.delta", "response.audio_transcript.done",
     "response.done"}

\* the session as one value, so that the helper functions of the
\* connection handler compose
DS ==
    [state |-> state, ws |-> ws, stt |-> stt, sttSent |-> sttSent,
     sttOpened |-> sttOpened, timers |-> timers, tts |-> tts,
     turns |-> turns, nTurns |-> nTurns, wsOut |-> wsOut,
     dInvoked |-> dInvoked, sttEstablished |-> sttEstablished]

DSet(d) ==
    /\ state' = d.state
    /\ ws' = d.ws
    /\ stt' = d.stt
    /\ sttSent' = d.sttSent
    /\ sttOpened' = d.sttOpened
    /\ timers' = d.timers
    /\ tts' = d.tts
    /\ turns' = d.turns
    /\ nTurns' = d.nTurns
    /\ wsOut' = d.wsOut
    /\ dInvoked' = d.dInvoked
    /\ sttEstablished' = d.sttEstablished

\* sendJson(ws, obj): sent only while the browser socket is open
sendJson(d, type) ==
    IF d.ws = OPEN THEN [d EXCEPT !.wsOut[type] = @ + 1] ELSE d

\* socket.close(): starts the closing handshake of a live socket
wsClose(rs) == IF rs \in {CONNECTING, OPEN} THEN CLOSING ELSE rs

\* ensureStt
ensureStt(d) ==
    IF d.state.sttWs THEN d
    ELSE [d EXCEPT !.stt = CONNECTING, !.state.sttWs = TRUE,
                   !.sttOpened = @ + 1, !.sttEstablished = FALSE]

\* clearTimeout(h)
clearTimeout(d, h) == [d EXCEPT !.timers = @ \ {h}]

\* a schedulePartialFinalize that arms a timer without clearing the last
schedulePartialFinalizeNoClear(d) ==
    LET h == CHOOSE x \in TimerIds \ (d.timers \cup {d.state.partialTimer}) :
                 \A y \in TimerIds \ (d.timers \cup {d.state.partialTimer}) : x <= y
    IN [d EXCEPT !.timers = @ \cup {h}, !.state.partialTimer = h]

\* schedulePartialFinalize
schedulePartialFinalize(d) ==
    LET c == IF d.state.partialTimer # 0
             THEN clearTimeout(d, d.state.partialTimer) ELSE d
        h == CHOOSE x \in TimerIds \ (c.timers \cup {c.state.partialTimer}) :
                 \A y \in TimerIds \ (c.timers \cup {c.state.partialTimer}) : x <= y
    IN [c EXCEPT !.timers = @ \cup {h}, !.state.partialTimer = h]

\* a message of the dialog memory; turn names the handleUserTurn call it
\* belongs to (0 for the system prompt)
Message(role, content, turn) ==
    [role |-> role, content |-> content, turn |-> turn, name |-> ""]
\* state.messages.push({ role: "tool", name: toolName, content: ... })
ToolMessage(name, content, turn) ==
    [role |-> "tool", content |-> content, turn |-> turn, name |-> name]

\* ttsSpeakAndStream: replace the previous TTS socket by a new one
ttsSpeakAndStream(d, text) ==
    LET c == IF d.state.ttsWs # 0
             THEN [d EXCEPT !.tts[d.state.ttsWs].rs = wsClose(@),
                            !.state.ttsWs = 0]
             ELSE d
        id == Len(c.tts) + 1
        n == [c EXCEPT !.state.speaking = TRUE,
                       !.tts = Append(@, [rs |-> CONNECTING, spoke |-> FALSE,
                                          deltas |-> 0, dones |-> 0,
                                          text |-> text]),
                       !.state.ttsWs = id]
    IN sendJson(n, "response.content_part.added")

\* an answer that is recorded twice
dAnswerTwice(d, turn) ==
    LET a == [d EXCEPT !.state.messages =
                  Append(Append(@, Message("assistant", "answer", turn)),
                         Message("assistant", "answer", turn))]
        b == sendJson(a, "response.audio_transcript.delta")
        c == ttsSpeakAndStream(b, "answer")
    IN sendJson(sendJson(c, "response.audio_transcript.done"), "response.done")

\* handleUserTurn after callMistralWithTools resolved with an answer
dAnswer(d, turn) ==
    LET a == [d EXCEPT !.state.messages =
                  Append(@, Message("assistant", "answer", turn))]
        b == sendJson(a, "response.audio_transcript.delta")
        c == ttsSpeakAndStream(b, "answer")
    IN sendJson(sendJson(c, "response.audio_transcript.done"), "response.done")

\* handleUserTurn's catch: speak the fallback
dFallback(d) == ttsSpeakAndStream(d, "fallback")

\* a tool loop that awaits whatever tool the model names
dRunToolsAnyName(d, i, k) ==
    LET t == d.turns[i]
    IN IF k > Len(t.calls)
       THEN [d EXCEPT !.turns[i].pc = "second"]
       ELSE [d EXCEPT !.turns[i].pc = "tool", !.turns[i].k = k,
                      !.dInvoked = Append(@, [turn |-> t.turn,
                                              name |-> t.calls[k]])]

\* the tool loop of callMistralWithTools from call k of task i on: runs
\* to the next awaited tool, or to the second request
RECURSIVE dRunTools(_, _, _)
dRunTools(d, i, k) ==
    LET t == d.turns[i]
    IN IF k > Len(t.calls)
       THEN [d EXCEPT !.turns[i].pc = "second"]
       ELSE IF t.calls[k] \in DImplemented
            THEN [d EXCEPT !.turns[i].pc = "tool", !.turns[i].k = k,
                           !.dInvoked = Append(@, [turn |-> t.turn,
                                                   name |-> t.calls[k]])]
            ELSE dRunTools(
                   [d EXCEPT !.state.messages =
                        Append(@, ToolMessage(t.calls[k], "unknown_tool",
                                              t.turn))],
                   i, k + 1)

\* handleUserTurn up to the await of the first request
handleUserTurn(d, userText) ==
    IF userText = "" THEN d
    ELSE [d EXCEPT !.state.messages =
                       Append(@, Message("user", userText, d.nTurns + 1)),
                   !.nTurns = @ + 1,
                   !.turns = Append(@, [turn |-> d.nTurns + 1, pc |-> "first",
                                        calls |-> <<>>, k |-> 0])]

\* finalizeNow without the reset of state.lastPartial
finalizeNowKeepsBuffer(d) ==
    LET c == IF d.state.partialTimer # 0
             THEN [clearTimeout(d, d.state.partialTimer)
                       EXCEPT !.state.partialTimer = 0]
             ELSE d
        text == Trim(c.state.lastPartial)
    IN IF text = "" THEN c
       ELSE handleUserTurn(sendJson(c, "stt.final"), text)

\* a finalizeNow that leaves the timer armed
finalizeNowKeepsTimer(d) ==
    LET text == Trim(d.state.lastPartial)
    IN IF text = "" THEN d
       ELSE handleUserTurn(
                sendJson([d EXCEPT !.state.lastPartial = ""], "stt.final"),
                text)

\* finalizeNow
finalizeNow(d) ==
    LET c == IF d.state.partialTimer # 0
             THEN [clearTimeout(d, d.state.partialTimer)
                       EXCEPT !.state.partialTimer = 0]
             ELSE d
        text == Trim(c.state.lastPartial)
    IN IF text = "" THEN c
       ELSE handleUserTurn(
                sendJson([c EXCEPT !.state.lastPartial = ""], "stt.final"),
                text)

\* a message handler that re-arms the timer on every JSON fragment
sttOnMessageArmsAlways(d, msg) ==
    IF msg.kind = "nonjson" THEN d
    ELSE LET a == IF Trim(msg.transcript) # ""
                  THEN schedulePartialFinalize(
                           sendJson([d EXCEPT !.state.lastPartial =
                                         Trim(msg.transcript)],
                                    "stt.partial"))
                  ELSE schedulePartialFinalize(d)
         IN IF msg.isFinal THEN finalizeNow(a) ELSE a

\* dg.on("message") of the STT socket
sttOnMessage(d, msg) ==
    IF msg.kind = "nonjson" THEN d
    ELSE LET a == IF Trim(msg.transcript) # ""
                  THEN schedulePartialFinalize(
                           sendJson([d EXCEPT !.state.lastPartial =
                                         Trim(msg.transcript)],
                                    "stt.partial"))
                  ELSE d
         IN IF msg.isFinal THEN finalizeNow(a) ELSE a

\* an interrupt that also abandons the turns in progress
dInterruptDropsTurns(d) ==
    LET c == IF d.state.ttsWs # 0 /\ d.tts[d.state.ttsWs].rs = OPEN
             THEN [d EXCEPT !.tts[d.state.ttsWs].rs = wsClose(@)]
             ELSE d
    IN [c EXCEPT !.state.ttsWs = 0, !.state.speaking = FALSE, !.turns = <<>>]

\* the interrupt case of the control messages
dInterrupt(d) ==
    LET c == IF d.state.ttsWs # 0 /\ d.tts[d.state.ttsWs].rs = OPEN
             THEN [d EXCEPT !.tts[d.state.ttsWs].rs = wsClose(@)]
             ELSE d
    IN [c EXCEPT !.state.ttsWs = 0, !.state.speaking = FALSE]

\* removal of a finished task
dDrop(d, i) ==
    [d EXCEPT !.turns = [j \in 1..(Len(@) - 1) |->
                            IF j < i THEN @[j] ELSE @[j + 1]]]

\* browser frames
DFrames ==
    { [kind |-> k] : k \in {"binary", "badjson", "notype", "session.update",
                            "interrupt", "response.create", "other"} }

\* STT frames
DSttFrames ==
    { [kind |-> "nonjson", transcript |-> "", isFinal |-> FALSE] }
    \cup
    { [kind |-> "json", transcript |-> t, isFinal |-> f] :
         t \in Transcripts, f \in BOOLEAN }

\* what the first Mistral request may resolve to
DFirstReplies ==
    { [kind |-> "throw", calls |-> <<>>], [kind |-> "answer", calls |-> <<>>] }
    \cup
    { [kind |-> "calls", calls |-> c] :
         c \in UNION { [1..n -> ToolNames] : n \in 1..MaxCalls } }

SYSTEM_PROMPT == "system prompt"

\* the connection handler up to the registration of the handlers: the
\* ping timer runs and "ready" was sent
DInit ==
    /\ state = [sttWs |-> FALSE, ttsWs |-> 0, closed |-> FALSE,
                lastPartial |-> "", partialTimer |-> 0, speaking |-> FALSE,
                pingTimer |-> TRUE,
                messages |-> <<Message("system", SYSTEM_PROMPT, 0)>>]
    /\ ws = OPEN
    /\ stt = CLOSED
    /\ sttSent = <<>>
    /\ sttOpened = 0
    /\ timers = {}
    /\ tts = <<>>
    /\ turns = <<>>
    /\ nTurns = 0
    /\ wsOut = [t \in WsTypes |-> IF t = "ready" THEN 1 ELSE 0]
    /\ dInvoked = <<>>
    /\ dSeq = 0
    /\ dUp = 0
    /\ sttEstablished = FALSE
    /\ utterances = <<>>
    /\ fin = [timeout |-> 0, final |-> 0, empty |-> 0]
    /\ dAudioIn = <<>>
    /\ interrupted = FALSE

DOther == UNCHANGED <<bridge, qVars, tVars, pVars>>
DQuiet == DOther /\ UNCHANGED dHist

\* ws.on("message")
DClientMessage(frame) ==
    /\ bridge = "deepgram"
    /\ ws = OPEN
    /\ dSeq < MaxClientMsgs
    /\ dSeq' = dSeq + 1
    /\ DSet(IF state.closed THEN DS
            ELSE CASE frame.kind = "binary" ->
                        LET d == ensureStt(DS)
                        IN IF d.stt = OPEN
                           THEN [d EXCEPT !.sttSent = Append(@, dSeq + 1)]
                           ELSE d
                   [] frame.kind = "session.update" ->
                        sendJson(DS, "session.updated")
                   [] frame.kind = "interrupt" -> dInterrupt(DS)
                   [] frame.kind = "response.create" ->
                        ttsSpeakAndStream(sendJson(DS, "response.created"),
                                          "instructions")
                   [] OTHER -> DS)
    /\ dAudioIn' = IF frame.kind = "binary" /\ ~state.closed
                   THEN Append(dAudioIn, dSeq + 1) ELSE dAudioIn
    /\ interrupted' = IF frame.kind = "interrupt" /\ ~state.closed
                      THEN TRUE ELSE interrupted
    /\ UNCHANGED <<dUp, utterances, fin>>
    /\ DOther

\* dg.on("open") of the STT socket
DSttOpen ==
    /\ bridge = "deepgram"
    /\ stt = CONNECTING
    /\ stt' = OPEN
    /\ sttEstablished' = TRUE
    /\ UNCHANGED <<state, ws, sttSent, sttOpened, timers, tts, turns, nTurns,
                   wsOut, dInvoked, dSeq, dUp>>
    /\ DQuiet

\* dg.on("message") of the STT socket; ws keeps delivering frames that
\* were in flight until the closing handshake is over (none on a socket
\* that was closed before its handshake completed)
DSttMessage(msg) ==
    /\ bridge = "deepgram"
    /\ stt \in {OPEN, CLOSING}
    /\ sttEstablished
    /\ dUp < MaxUpEvents
    /\ (nTurns < MaxTurns \/ Trim(msg.transcript) = "")
    /\ dUp' = dUp + 1
    /\ DSet(sttOnMessage(DS, msg))
    /\ utterances' =
          IF msg.kind = "nonjson" \/ Trim(msg.transcript) = "" THEN utterances
          ELSE IF state.lastPartial = ""
               THEN Append(utterances, Trim(msg.transcript))
               ELSE [utterances EXCEPT ![Len(utterances)] = Trim(msg.transcript)]
    /\ fin' = IF msg.kind = "nonjson" \/ ~msg.isFinal THEN fin
              ELSE IF nTurns' > nTurns THEN [fin EXCEPT !.final = @ + 1]
                   ELSE [fin EXCEPT !.empty = @ + 1]
    /\ interrupted' = IF nTurns' > nTurns THEN FALSE ELSE interrupted
    /\ UNCHANGED <<dSeq, dAudioIn>>
    /\ DOther

\* dg.on("close") of the STT socket
DSttClose ==
    /\ bridge = "deepgram"
    /\ stt \in {CONNECTING, OPEN, CLOSING}
    /\ stt' = CLOSED
    /\ state' = [state EXCEPT !.sttWs = FALSE]
    /\ UNCHANGED <<ws, sttSent, sttOpened, timers, tts, turns, nTurns, wsOut,
                   dInvoked, dSeq, dUp, sttEstablished>>
    /\ DQuiet

\* dg.on("error") of the STT socket: logged; ws closes the socket
DSttError ==
    /\ bridge = "deepgram"
    /\ stt \in {CONNECTING, OPEN}
    /\ stt' = CLOSING
    /\ UNCHANGED <<state, ws, sttSent, sttOpened, timers, tts, turns, nTurns,
                   wsOut, dInvoked, dSeq, dUp, sttEstablished>>
    /\ DQuiet

\* the finalize timer expires
DTimerFire(h) ==
    /\ bridge = "deepgram"
    /\ h \in timers
    /\ DSet(finalizeNow([DS EXCEPT !.timers = @ \ {h}]))
    /\ fin' = IF nTurns' > nTurns THEN [fin EXCEPT !.timeout = @ + 1]
              ELSE [fin EXCEPT !.empty = @ + 1]
    /\ interrupted' = IF nTurns' > nTurns THEN FALSE ELSE interrupted
    /\ UNCHANGED <<dSeq, dUp, utterances, dAudioIn>>
    /\ DOther

\* the first Mistral request of task i settles
DLlmFirst(i, reply) ==
    /\ bridge = "deepgram"
    /\ i \in 1..Len(turns)
    /\ turns[i].pc = "first"
    /\ DSet(CASE reply.kind = "throw" -> dFallback(dDrop(DS, i))
              [] reply.kind = "answer" -> dAnswer(dDrop(DS, i), turns[i].turn)
              [] OTHER -> dRunTools([DS EXCEPT !.turns[i].calls = reply.calls],
                                    i, 1))
    /\ UNCHANGED <<dSeq, dUp>>
    /\ DQuiet

\* the awaited tool of task i settles: the result, or the caught error,
\* is pushed as a tool message and the loop goes on
DToolReturn(i, outcome) ==
    /\ bridge = "deepgram"
    /\ i \in 1..Len(turns)
    /\ turns[i].pc = "tool"
    /\ DSet(dRunTools(
              [DS EXCEPT !.state.messages =
                   Append(@, ToolMessage(turns[i].calls[turns[i].k],
                                         IF outcome = "ok" THEN "result"
                                         ELSE "error",
                                         turns[i].turn))],
              i, turns[i].k + 1))
    /\ UNCHANGED <<dSeq, dUp>>
    /\ DQuiet

\* the second Mistral request of task i settles
DLlmSecond(i, reply) ==
    /\ bridge = "deepgram"
    /\ i \in 1..Len(turns)
    /\ turns[i].pc = "second"
    /\ DSet(IF reply = "throw" THEN dFallback(dDrop(DS, i))
            ELSE dAnswer(dDrop(DS, i), turns[i].turn))
    /\ UNCHANGED <<dSeq, dUp>>
    /\ DQuiet

\* dg.on("open") of TTS socket i: Speak and Flush are sent
DTtsOpen(i) ==
    /\ bridge = "deepgram"
    /\ i \in 1..Len(tts)
    /\ tts[i].rs = CONNECTING
    /\ tts' = [tts EXCEPT ![i].rs = OPEN, ![i].spoke = TRUE]
    /\ UNCHANGED <<state, ws, stt, sttSent, sttOpened, timers, turns, nTurns,
                   wsOut, dInvoked, dSeq, dUp, sttEstablished>>
    /\ DQuiet

\* dg.on("message") of TTS socket i
DTtsMessage(i, kind) ==
    /\ bridge = "deepgram"
    /\ i \in 1..Len(tts)
    /\ tts[i].rs \in {OPEN, CLOSING}
    /\ tts[i].spoke
    /\ dUp < MaxUpEvents
    /\ dUp' = dUp + 1
    /\ DSet(CASE kind = "audio" ->
                   IF ws = OPEN
                   THEN sendJson([DS EXCEPT !.tts[i].deltas = @ + 1],
                                 "response.audio.delta")
                   ELSE DS
              [] kind = "Flushed" ->
                   LET d == IF ws = OPEN
                            THEN sendJson([DS EXCEPT !.tts[i].dones = @ + 1],
                                          "response.audio.done")
                            ELSE DS
                   IN [d EXCEPT !.tts[i].rs = wsClose(@)]
              [] OTHER -> DS)
    /\ UNCHANGED dSeq
    /\ DQuiet

\* what dg.on("close") and dg.on("error") of a TTS socket do
ttsOnEnd(d, i) ==
    LET c == [d EXCEPT !.state.speaking = FALSE]
    IN IF c.ws = OPEN
       THEN sendJson([c EXCEPT !.tts[i].dones = @ + 1], "response.audio.done")
       ELSE c

\* dg.on("close") of TTS socket i
DTtsClose(i) ==
    /\ bridge = "deepgram"
    /\ i \in 1..Len(tts)
    /\ tts[i].rs \in {CONNECTING, OPEN, CLOSING}
    /\ DSet(ttsOnEnd([DS EXCEPT !.tts[i].rs = CLOSED], i))
    /\ UNCHANGED <<dSeq, dUp>>
    /\ DQuiet

\* dg.on("error") of TTS socket i; ws closes the socket
DTtsError(i) ==
    /\ bridge = "deepgram"
    /\ i \in 1..Len(tts)
    /\ tts[i].rs \in {CONNECTING, OPEN}
    /\ DSet(ttsOnEnd([DS EXCEPT !.tts[i].rs = CLOSING], i))
    /\ UNCHANGED <<dSeq, dUp>>
    /\ DQuiet

\* ws.on("close")
DClientClose ==
    /\ bridge = "deepgram"
    /\ ws = OPEN
    /\ DSet(LET a == [DS EXCEPT !.ws = CLOSED, !.state.closed = TRUE,
                                !.stt = IF DS.state.sttWs THEN wsClose(@) ELSE @]
                b == IF a.state.ttsWs # 0
                     THEN [a EXCEPT !.tts[a.state.ttsWs].rs = wsClose(@)]
                     ELSE a
                c == IF b.state.partialTimer # 0
                     THEN clearTimeout(b, b.state.partialTimer) ELSE b
            IN c)
    /\ UNCHANGED <<dSeq, dUp>>
    /\ DQuiet

MaxTts == MaxClientMsgs + MaxUpEvents

\* ========================================================= specifications
AllInit == QInit /\ TInit /\ PInit /\ DInit

\* ---- part_000: the client path and the connection lifecycle; upstream
\* events are opaque here
QOpaque == {e \in QEvents : e.call_id = NoCall}

InitQ == bridge = "queue" /\ AllInit
QNext ==
    \/ QOpenaiOpen
    \/ \E f \in QFrames : QClientMessage(f)
    \/ \E e \in QOpaque : QOpenaiMessage(e)
    \/ QOpenaiClose
    \/ QOpenaiError
    \/ QClientClose
SpecQ == InitQ /\ [][QNext]_vars

\* ---- part_001
InitP == bridge = "proxy" /\ AllInit
SpecP == InitP /\ [][PNext]_vars

\* ---- part_001: every kind of client frame, with events from upstream in
\* between, until the client leaves
PFramesNext ==
    \/ PUpstreamOpen
    \/ \E f \in PFrames : PClientMessage(f)
    \/ PUpstreamMessage
    \/ PClientClose
SpecPFrames == InitP /\ [][PFramesNext]_vars

\* ---- part_001: the control messages the schema accepts
PValid == {f \in PFrames : f.kind = "value" /\ ClientMessageSchema(f)}
PControlNext ==
    \/ PUpstreamOpen
    \/ \E f \in PValid : PClientMessage(f)
    \/ PClientClose
SpecPControl == InitP /\ [][PControlNext]_vars

\* ---- part_001: the close and error events of both sockets, with audio
\* and interrupts from the client and events from upstream in between
PTeardownFrames ==
    {f \in PFrames : f.kind = "binary" \/ (f.kind = "value" /\ Interrupt(f))}
PTeardownNext ==
    \/ PUpstreamOpen
    \/ \E f \in PTeardownFrames : PClientMessage(f)
    \/ PUpstreamMessage
    \/ PClientClose
    \/ PClientError
    \/ PUpstreamClose
    \/ PUpstreamError
SpecPTeardown == InitP /\ [][PTeardownNext]_vars

\* ---- part_001: the same events, with the close events ws owes: a socket
\* on which close() was called, or that reported an error, emits "close"
\* (the peer answers the close frame, or the close timer of ws destroys
\* the socket), so the close handler of a closing socket runs eventually.
\* Nothing obliges an open socket to close.
PClientCloseDue == pclient = CLOSING /\ PClientClose
PUpstreamCloseDue == upstream = CLOSING /\ PUpstreamClose
SpecPLive ==
    /\ InitP
    /\ [][PTeardownNext]_vars
    /\ WF_vars(PClientCloseDue)
    /\ WF_vars(PUpstreamCloseDue)

\* ---- part_002: the tunnel and the connection lifecycle; upstream events
\* are opaque here
TOpaque == {e \in TEvents : e.call_id = NoCall}
InitT == bridge = "tools" /\ AllInit
TNext ==
    \/ TOpenaiOpen
    \/ TClientMessage
    \/ \E e \in TOpaque : TOpenaiMessage(e)
    \/ TOpenaiClose
    \/ TClientClose
SpecT == InitT /\ [][TNext]_vars

\* ---- server.ts: browser frames and the STT connection
InitD == bridge = "deepgram" /\ AllInit
DFramesOf(kinds) == {f \in DFrames : f.kind \in kinds}
DConnNext ==
    \/ \E f \in DFrames : DClientMessage(f)
    \/ DSttOpen
    \/ \E m \in {x \in DSttFrames : x.transcript \in {"", "hi"}} : DSttMessage(m)
    \/ DSttClose
    \/ DSttError
    \/ \E h \in TimerIds : DTimerFire(h)
    \/ DClientClose
SpecDConn == InitD /\ [][DConnNext]_vars

\* ---- server.ts: utterances, finalize and the turns they start (one
\* microphone frame opens the STT connection; the language model answers
\* without tools)
DTurnNext ==
    \/ \E f \in DFramesOf({"binary"}) : ~state.sttWs /\ DClientMessage(f)
    \/ DSttOpen
    \/ \E m \in DSttFrames : DSttMessage(m)
    \/ \E h \in TimerIds : DTimerFire(h)
    \/ \E i \in 1..MaxTurns, r \in {x \in DFirstReplies : x.kind # "calls"} : DLlmFirst(i, r)
SpecDTurn == InitD /\ [][DTurnNext]_vars

\* ---- server.ts: speech synthesis and barge-in; the speech service
\* reports whole utterances
DTtsNext ==
    \/ \E f \in DFramesOf({"binary"}) : ~state.sttWs /\ DClientMessage(f)
    \/ \E f \in DFramesOf({"interrupt"}) : DClientMessage(f)
    \/ DSttOpen
    \/ \E m \in {x \in DSttFrames : x.transcript = "hi" /\ x.isFinal} : DSttMessage(m)
    \/ \E i \in 1..MaxTurns, r \in {x \in DFirstReplies : x.kind # "calls"} : DLlmFirst(i, r)
    \/ \E i \in 1..MaxTts : DTtsOpen(i)
    \/ \E i \in 1..MaxTts, k \in {"audio", "Flushed", "Metadata"} : DTtsMessage(i, k)
    \/ \E i \in 1..MaxTts : DTtsClose(i)
    \/ \E i \in 1..MaxTts : DTtsError(i)
    \/ DClientClose
SpecDTts == InitD /\ [][DTtsNext]_vars

\* ---- the tool-call handling of the three bridges that have one; in
\* server.ts the tool loop of one turn
QToolNext ==
    \/ QOpenaiOpen
    \/ \E e \in QEvents : QOpenaiMessage(e)
    \/ \E i \in 1..MaxUpEvents, o \in {"ok", "throw"} : QToolReturn(i, o)
TToolNext ==
    \/ TOpenaiOpen
    \/ \E e \in TEvents : TOpenaiMessage(e)
    \/ \E i \in 1..MaxUpEvents, o \in {"ok", "throw"} : TToolReturn(i, o)
DToolNext ==
    \/ \E f \in DFramesOf({"binary"}) : ~state.sttWs /\ DClientMessage(f)
    \/ DSttOpen
    \/ \E m \in {x \in DSttFrames : x.transcript = "hi" /\ x.isFinal} : nTurns = 0 /\ DSttMessage(m)
    \/ \E i \in 1..MaxTurns, r \in DFirstReplies : DLlmFirst(i, r)
    \/ \E i \in 1..MaxTurns, o \in {"ok", "throw"} : DToolReturn(i, o)
    \/ \E i \in 1..MaxTurns, r \in {"throw", "answer"} : DLlmSecond(i, r)
InitToolCalls == bridge \in {"queue", "tools", "deepgram"} /\ AllInit
SpecToolCalls == InitToolCalls /\ [][QToolNext \/ TToolNext \/ DToolNext]_vars

\* ---- part_000 and server.ts: interrupt frames that arrive while a tool
\* execution is awaited (one call of the implemented tool per session)
QInterruptEvents ==
    {e \in QEvents : e.call_id = "c1" /\ e.name \in {"", "gmail_search"}
                      /\ e.type # "response.function_call_arguments.delta"}
QInterruptNext ==
    \/ QOpenaiOpen
    \/ \E e \in QInterruptEvents : QOpenaiMessage(e)
    \/ \E f \in {x \in QFrames : x.kind = "interrupt"} :
          qInflight # <<>> /\ QClientMessage(f)
    \/ \E i \in 1..MaxUpEvents, o \in {"ok", "throw"} : QToolReturn(i, o)
DInterruptNext ==
    \/ \E f \in DFramesOf({"binary"}) : ~state.sttWs /\ DClientMessage(f)
    \/ \E f \in DFramesOf({"interrupt"}) :
          (\E i \in 1..Len(turns) : turns[i].pc = "tool") /\ DClientMessage(f)
    \/ DSttOpen
    \/ \E m \in {x \in DSttFrames : x.transcript = "hi" /\ x.isFinal} : nTurns = 0 /\ DSttMessage(m)
    \/ \E i \in 1..MaxTurns, r \in DFirstReplies : DLlmFirst(i, r)
    \/ \E i \in 1..MaxTurns, o \in {"ok", "throw"} : DToolReturn(i, o)
    \/ \E i \in 1..MaxTurns, r \in {"throw", "answer"} : DLlmSecond(i, r)
InitInterrupt == bridge \in {"queue", "deepgram"} /\ AllInit
SpecInterrupt == InitInterrupt /\ [][QInterruptNext \/ DInterruptNext]_vars

\* ================================================================ claims
Front(q) == SubSeq(q, 1, Len(q) - 1)
TextsOf(msgs, role) ==
    LET sel == SelectSeq(msgs, LAMBDA m : m.role = role)
    IN [j \in 1..Len(sel) |-> sel[j].content]

\* C1: every utterance buffered by the Deepgram bridge is handed to the
\* turn handler exactly once, whichever of the silence timer and the
\* end-of-speech flag fires first: the user turns of the conversation are,
\* in order, the final texts of the utterances already claimed, one
\* generation was started per user turn, and a trigger that finds the
\* buffer empty adds nothing.
C1_FinalizeOnce ==
    bridge = "deepgram" =>
        /\ TextsOf(state.messages, "user") =
               IF state.lastPartial # "" THEN Front(utterances) ELSE utterances
        /\ nTurns = Len(TextsOf(state.messages, "user"))
        /\ nTurns = fin.timeout + fin.final
\* C1 witness: one utterance was claimed by the timer, another by the
\* end-of-speech flag, and a later trigger found the buffer empty.
C1_Witness ==
    /\ bridge = "deepgram"
    /\ fin.timeout >= 1
    /\ fin.final >= 1
    /\ fin.empty >= 1
    /\ Len(TextsOf(state.messages, "user")) = 2

\* the events of one type for one call in a log of upstream events
CountOf(log, c, type) ==
    Cardinality({j \in 1..Len(log) : log[j].call_id = c /\ log[j].type = type})
InvokedFor(inv, c) ==
    Cardinality({j \in 1..Len(inv) : inv[j].call_id = c})

\* C2: the tool bridge runs the tool once per announced call, also when
\* both "arguments done" and "output item done" arrive for it: the number
\* of runToolByName invocations for a call_id never exceeds the number of
\* times that call_id was announced.
C2_ToolOncePerCall ==
    bridge = "tools" =>
        \A c \in CallIds :
            InvokedFor(tInvoked, c) <=
                CountOf(tLog, c, "response.output_item.added")

\* the arrival indices of the client frames in a list of upstream messages
ClientTags(msgs) ==
    LET sel == SelectSeq(msgs, LAMBDA m : m.n > 0)
    IN [j \in 1..Len(sel) |-> sel[j].n]
Increasing(q) == \A j \in 1..(Len(q) - 1) : q[j] < q[j + 1]
SessionUpdate0 == UpMsg("session.update", 0, NoCall, NoOutput)

\* C3: in the queueing tool bridge a frame received before upstream is
\* open is appended to the queue and nothing is sent; the open handler
\* sends session.update and then the queued frames in arrival order and
\* leaves the queue empty, so that every queued frame is delivered
\* exactly once.
C3_QueueState ==
    bridge = "queue" =>
        /\ openaiReady => clientQueue = <<>>
        /\ ~openaiReady => openaiSent = <<>>
        /\ Increasing(ClientTags(openaiSent \o clientQueue))
C3_QueueStep ==
    /\ \A f \in QFrames :
          (QClientMessage(f) /\ ~openaiReady /\ f.kind # "badjson") =>
              /\ Len(clientQueue') = Len(clientQueue) + 1
              /\ clientQueue'[Len(clientQueue')].n = qSeq + 1
              /\ SubSeq(clientQueue', 1, Len(clientQueue)) = clientQueue
    /\ QOpenaiOpen =>
          /\ openaiSent' = <<SessionUpdate0>> \o clientQueue
          /\ clientQueue' = <<>>
C3_QueueFlushedInOrder == []C3_QueueState /\ [][C3_QueueStep]_vars
\* C3 witness: two frames arrived before upstream opened and are the two
\* messages sent after session.update, in arrival order.
C3_Witness ==
    /\ bridge = "queue"
    /\ openai = OPEN
    /\ qOpenedAt >= 2
    /\ Len(openaiSent) >= 3
    /\ openaiSent[1] = SessionUpdate0
    /\ openaiSent[2].n >= 1
    /\ openaiSent[3].n > openaiSent[2].n
    /\ openaiSent[3].n <= qOpenedAt
    /\ clientQueue = <<>>

Range(q) == {q[j] : j \in 1..Len(q)}

\* C4: microphone frames that reach the Deepgram bridge while the STT
\* socket is still connecting are kept and sent once it opens: whenever
\* the STT socket is open, every frame received so far has been sent on.
C4_AudioKeptWhileConnecting ==
    (bridge = "deepgram" /\ stt = OPEN) =>
        Range(dAudioIn) \subseteq Range(sttSent)

\* C5: between an interrupt and the next finalized user turn the Deepgram
\* bridge starts no TTS utterance and sends no Speak request of its own
\* accord (steps other than client frames), whatever was pending when the
\* interrupt arrived.
C5_QuietStep ==
    (interrupted /\ interrupted' /\ dSeq' = dSeq) =>
        /\ Len(tts') = Len(tts)
        /\ \A j \in 1..Len(tts) : tts'[j].spoke = tts[j].spoke
C5_InterruptSilences == [][C5_QuietStep]_vars

\* a frame the proxy must reject: not JSON, or JSON of the wrong shape
PBadFrame(f) ==
    \/ f.kind = "badjson"
    \/ f.kind # "binary" /\ ~ClientMessageSchema(f)
ErrorsFor(out, n) ==
    Cardinality({j \in 1..Len(out) : out[j].type = "error" /\ out[j].n = n})

\* C6: a text frame that is not valid JSON or fails the schema makes the
\* proxy send exactly one error event to the client and nothing
\* upstream, and leaves the session open; a valid control message is
\* translated and sent upstream whatever was rejected before it.
C6_RejectStep ==
    \A f \in PFrames :
      /\ (PClientMessage(f) /\ f.kind # "binary" /\ ~PBadFrame(f)
                            /\ upstream = OPEN) =>
            /\ upstreamSent' = upstreamSent \o pControl(f, pSeq + 1)
            /\ pclientOut' = pclientOut
      /\ (PClientMessage(f) /\ PBadFrame(f)) =>
            /\ Len(pclientOut') = Len(pclientOut) + 1
            /\ SubSeq(pclientOut', 1, Len(pclientOut)) = pclientOut
            /\ pclientOut'[Len(pclientOut')].type = "error"
            /\ pclientOut'[Len(pclientOut')].n = pSeq + 1
            /\ upstreamSent' = upstreamSent
            /\ <<upstream, pclient, closed, pingInterval>>' =
                   <<upstream, pclient, closed, pingInterval>>
            /\ ~uncaught'
C6_ErrorsOnce ==
    bridge = "proxy" => \A n \in 1..MaxClientMsgs : ErrorsFor(pclientOut, n) <= 1
C6_InvalidFrameRejected == []C6_ErrorsOnce /\ [][C6_RejectStep]_vars
\* C6 witness: with upstream open, an unparsable frame and a frame of the
\* wrong shape were each answered by one error, nothing was sent upstream
\* for them, the session is open, and the valid message that came after
\* them was sent upstream.
C6_Witness ==
    /\ bridge = "proxy"
    /\ upstream = OPEN /\ pclient = OPEN /\ ~closed /\ ~uncaught
    /\ \E j, k \in 1..Len(pclientOut) :
          /\ pclientOut[j].message = "Invalid JSON from client"
          /\ pclientOut[k].message = "Invalid message shape"
          /\ pclientOut[j].n > 0 /\ pclientOut[k].n > 0
          /\ \A m \in 1..Len(upstreamSent) :
                upstreamSent[m].n \notin {pclientOut[j].n, pclientOut[k].n}
          /\ \E m \in 1..Len(upstreamSent) :
                /\ upstreamSent[m].n > pclientOut[j].n
                /\ upstreamSent[m].n > pclientOut[k].n

\* C7: a malformed text frame makes the Deepgram bridge send exactly one
\* error event to the browser.
C7_ErrorStep ==
    \A f \in DFramesOf({"badjson"}) :
        DClientMessage(f) => wsOut'["error"] = wsOut["error"] + 1
C7_MalformedFrameError == [][C7_ErrorStep]_vars

\* the fragments received for call c since its last announcement (all of
\* them when it was never announced), in arrival order
LastAnnounced(log, c, annType) ==
    LET at == {j \in 1..Len(log) : log[j].call_id = c /\ log[j].type = annType}
    IN IF at = {} THEN 0 ELSE CHOOSE j \in at : \A m \in at : m <= j
FragsSince(log, c, annType) ==
    LET rest == SubSeq(log, LastAnnounced(log, c, annType) + 1, Len(log))
        sel == SelectSeq(rest, LAMBDA e : e.call_id = c /\ e.delta # "")
    IN [j \in 1..Len(sel) |-> sel[j].delta]

\* C8: in both tool bridges the argument text held for a call, and so the
\* text parsed when "arguments done" is handled, is the concatenation in
\* arrival order of the fragments received for that call_id since its
\* announcement.
C8_ArgsAreConcatenation ==
    /\ bridge = "queue" =>
          \A c \in CallIds :
              pending[c].present =>
                  pending[c].args =
                      FragsSince(qLog, c, "response.function_call.created")
    /\ bridge = "tools" =>
          \A c \in CallIds :
              pendingToolCalls[c].present =>
                  pendingToolCalls[c].args =
                      FragsSince(tLog, c, "response.output_item.added")
\* C8 witness: a call was announced, its two fragments arrived in order,
\* and the done event dispatched the tool with the parsed concatenation.
C8_Witness ==
    /\ bridge = "queue"
    /\ \E c \in CallIds :
          /\ CountOf(qLog, c, "response.function_call.created") = 1
          /\ pending[c].args = CompleteArgs
          /\ \E j \in 1..Len(qInvoked) :
                qInvoked[j].call_id = c /\ qInvoked[j].args = ParsedArgs

\* argument text that is there but does not parse
BadText(text) == text # <<>> /\ ~JSONparse(text).ok
QDone == {e \in QEvents : e.type = "response.function_call_arguments.done"}
TDone == {e \in TEvents : e.type \in {"response.function_call.arguments.done",
                                      "response.output_item.done"}}
QReported(c, output) ==
    <<UpMsg("function_call_output", 0, c, output),
      UpMsg("response.create", 0, NoCall, NoOutput)>>

\* C9: when the accumulated argument text is not valid JSON at done time,
\* the tool is still dispatched, with empty arguments; when it settles its
\* result is reported upstream, followed by response.create; no socket is
\* closed by either step.
C9_BadArgsStep ==
    /\ \A e \in QDone :
          (QOpenaiMessage(e) /\ pending[e.call_id].name \in QImplemented
                             /\ BadText(pending[e.call_id].args)) =>
              /\ qInvoked' = Append(qInvoked,
                     [call_id |-> e.call_id, name |-> pending[e.call_id].name,
                      args |-> EmptyArgs])
              /\ qInflight' = Append(qInflight,
                     [call_id |-> e.call_id, name |-> pending[e.call_id].name,
                      args |-> EmptyArgs])
              /\ <<openai, qclient>>' = <<openai, qclient>>
    /\ \A i \in 1..MaxUpEvents, o \in {"ok", "throw"} :
          (QToolReturn(i, o) /\ openai = OPEN) =>
              /\ openaiSent' = openaiSent \o
                     QReported(qInflight[i].call_id,
                               IF o = "ok" THEN "result" ELSE "error")
              /\ <<openai, qclient>>' = <<openai, qclient>>
    /\ \A e \in TDone :
          (TOpenaiMessage(e) /\ tShouldRun(e)
               /\ pendingToolCalls[e.call_id].name \in TImplemented
               /\ BadText(pendingToolCalls[e.call_id].args)) =>
              /\ tInvoked' = Append(tInvoked,
                     [call_id |-> e.call_id,
                      name |-> pendingToolCalls[e.call_id].name,
                      args |-> EmptyArgs])
              /\ Len(tInflight') = Len(tInflight) + 1
              /\ <<openaiWS, clientWS>>' = <<openaiWS, clientWS>>
    /\ \A i \in 1..MaxUpEvents, o \in {"ok", "throw"} :
          (TToolReturn(i, o) /\ openaiWS = OPEN) =>
              /\ openaiWSSent' = openaiWSSent \o
                     QReported(tInflight[i].call_id,
                               IF o = "ok" THEN "result" ELSE "error")
              /\ <<openaiWS, clientWS>>' = <<openaiWS, clientWS>>
C9_BadArgsStillDispatched == [][C9_BadArgsStep]_vars
\* C9 witness: a call whose text does not parse was dispatched with empty
\* arguments and its result went upstream; both sockets are open.
C9_Witness ==
    /\ bridge = "queue"
    /\ openai = OPEN /\ qclient = OPEN
    /\ \E c \in CallIds :
          /\ BadText(pending[c].args)
          /\ \E j \in 1..Len(qInvoked) :
                qInvoked[j].call_id = c /\ qInvoked[j].args = EmptyArgs
          /\ \E j \in 1..Len(openaiSent) :
                /\ openaiSent[j].type = "function_call_output"
                /\ openaiSent[j].call_id = c
                /\ openaiSent[j].output = "result"

\* the number of leading calls that name no implemented tool
RECURSIVE UnknownPrefix(_)
UnknownPrefix(calls) ==
    IF calls = <<>> \/ calls[1] \in DImplemented THEN 0
    ELSE 1 + UnknownPrefix(Tail(calls))
UnknownResults(calls, n, turn) ==
    [j \in 1..n |-> ToolMessage(calls[j], "unknown_tool", turn)]

\* C10: a tool call that names no implemented tool invokes nothing; a
\* synthesized error is reported as that tool's output (a tool message in
\* server.ts, function_call_output in the queueing bridge); no socket is
\* closed; and generation resumes (the second request in server.ts,
\* response.create in the queueing bridge).
C10_NothingInvoked ==
    /\ bridge = "deepgram" =>
          \A j \in 1..Len(dInvoked) : dInvoked[j].name \in DImplemented
    /\ bridge = "queue" =>
          \A j \in 1..Len(qInvoked) : qInvoked[j].name \in QImplemented
C10_UnknownToolStep ==
    /\ \A i \in 1..MaxTurns, r \in DFirstReplies :
          (r.kind = "calls" /\ DLlmFirst(i, r)) =>
              LET u == UnknownPrefix(r.calls)
              IN /\ state'.messages = state.messages \o
                        UnknownResults(r.calls, u, turns[i].turn)
                 /\ u = Len(r.calls) =>
                        turns'[i].pc = "second" /\ dInvoked' = dInvoked
                 /\ <<ws, stt, tts>>' = <<ws, stt, tts>>
    /\ \A e \in QDone :
          (QOpenaiMessage(e) /\ pending[e.call_id].name \notin QImplemented) =>
              /\ qInvoked' = qInvoked
              /\ qInflight' = qInflight
              /\ openaiSent' = openaiSent \o
                     QReported(e.call_id, "not_implemented")
              /\ <<openai, qclient>>' = <<openai, qclient>>
C10_UnknownToolReported == []C10_NothingInvoked /\ [][C10_UnknownToolStep]_vars
\* C10 witness: in server.ts a turn whose only tool call named an unknown
\* tool got the error as tool message and, after the second request, its
\* answer; nothing was invoked and the browser socket is open.
C10_Witness ==
    /\ bridge = "deepgram"
    /\ ws = OPEN
    /\ dInvoked = <<>>
    /\ \E j, k \in 1..Len(state.messages) :
          /\ j < k
          /\ state.messages[j] = ToolMessage("delete_everything", "unknown_tool", 1)
          /\ state.messages[k] = Message("assistant", "answer", 1)

\* C11: a tool execution that throws closes no socket and starts no
\* teardown: the error is reported upstream as the output of that call,
\* followed by response.create.  With tool failures as the only faults, both
\* sockets of a session stay open once upstream has opened.
C11_FailureStep ==
    /\ \A i \in 1..MaxUpEvents :
          (QToolReturn(i, "throw") /\ openai = OPEN) =>
              /\ openaiSent' = openaiSent \o
                     QReported(qInflight[i].call_id, "error")
              /\ <<openai, qclient, openaiReady>>' = <<openai, qclient, openaiReady>>
    /\ \A i \in 1..MaxUpEvents :
          (TToolReturn(i, "throw") /\ openaiWS = OPEN) =>
              /\ openaiWSSent' = openaiWSSent \o
                     QReported(tInflight[i].call_id, "error")
              /\ <<openaiWS, clientWS>>' = <<openaiWS, clientWS>>
    /\ \A e \in TDone :
          (TOpenaiMessage(e) /\ tShouldRun(e)
               /\ pendingToolCalls[e.call_id].name \notin TImplemented) =>
              /\ openaiWSSent' = openaiWSSent \o QReported(e.call_id, "error")
              /\ tInflight' = tInflight
              /\ <<openaiWS, clientWS>>' = <<openaiWS, clientWS>>
C11_NoTeardown ==
    /\ (bridge = "queue" /\ openaiReady) => (openai = OPEN /\ qclient = OPEN)
    /\ (bridge = "tools" /\ openaiWSSent # <<>>) =>
           (openaiWS = OPEN /\ clientWS = OPEN)
C11_ToolFailureContained == []C11_NoTeardown /\ [][C11_FailureStep]_vars
\* C11 witness: in the tool bridge the implemented tool was run for a call
\* and threw; the error went upstream as that call's output, followed by
\* response.create, and both sockets are open.
C11_Witness ==
    /\ bridge = "tools"
    /\ openaiWS = OPEN /\ clientWS = OPEN
    /\ tInflight = <<>>
    /\ \E c \in CallIds :
          /\ CountOf(tLog, c, "response.output_item.added") = 1
          /\ \E j \in 1..Len(tInvoked) :
                tInvoked[j].call_id = c /\ tInvoked[j].name \in TImplemented
          /\ \E j \in 1..(Len(openaiWSSent) - 1) :
                /\ openaiWSSent[j] = UpMsg("function_call_output", 0, c, "error")
                /\ openaiWSSent[j + 1].type = "response.create"

\* every response.create the bridge originates directly follows a
\* function_call_output
ResumeAfterResult(sent) ==
    \A j \in 1..Len(sent) :
        (sent[j].type = "response.create" /\ sent[j].n = 0) =>
            (j > 1 /\ sent[j - 1].type = "function_call_output")
\* the names of the tool messages of one turn, in order
ToolNamesOf(msgs, turn) ==
    LET sel == SelectSeq(msgs, LAMBDA m : m.role = "tool" /\ m.turn = turn)
    IN [j \in 1..Len(sel) |-> sel[j].name]

\* C12: the result of a tool call is handed over before generation is
\* resumed for it: upstream, every response.create of the bridge directly
\* follows a function_call_output; in server.ts the tool messages of all
\* calls of a turn are in the history when its second request is pending,
\* and those of the calls already run while a tool is awaited.
C12_ResultBeforeResume ==
    /\ bridge = "queue" => ResumeAfterResult(openaiSent \o clientQueue)
    /\ bridge = "tools" => ResumeAfterResult(openaiWSSent)
    /\ bridge = "deepgram" =>
          \A i \in 1..Len(turns) :
              /\ turns[i].pc = "second" =>
                     ToolNamesOf(state.messages, turns[i].turn) = turns[i].calls
              /\ turns[i].pc = "tool" =>
                     ToolNamesOf(state.messages, turns[i].turn) =
                         SubSeq(turns[i].calls, 1, turns[i].k - 1)
\* C12 witness: in server.ts a turn ran a tool, the result is in the
\* history as a tool message, and the answer of the second request follows.
C12_Witness ==
    /\ bridge = "deepgram"
    /\ \E j, k \in 1..Len(state.messages) :
          /\ j < k
          /\ state.messages[j] = ToolMessage("gmail_search", "result", 1)
          /\ state.messages[k] = Message("assistant", "answer", 1)

\* the messages of one role that belong to one turn
CountRole(msgs, role, turn) ==
    Cardinality({j \in 1..Len(msgs) : msgs[j].role = role /\ msgs[j].turn = turn})
\* a turn whose handleUserTurn call has not finished
PendingTurn(t) == \E i \in 1..Len(turns) : turns[i].turn = t
Fallbacks == Cardinality({j \in 1..Len(tts) : tts[j].text = "fallback"})

\* C13 as stated: every finalized utterance has exactly one user turn and,
\* once handleUserTurn has finished on whatever path, exactly one
\* assistant turn.
C13_OneAssistantOnEveryPath ==
    bridge = "deepgram" =>
        \A t \in 1..nTurns :
            /\ CountRole(state.messages, "user", t) = 1
            /\ ~PendingTurn(t) => CountRole(state.messages, "assistant", t) = 1
\* C13 amended: every finalized utterance has exactly one user turn; a
\* turn has no assistant turn while its handleUserTurn call is pending and
\* at most one afterwards; the call appends exactly one assistant turn
\* when the request to the language model resolves (first or second
\* request, whatever the tools returned) and none when the request throws:
\* then the fallback sentence is spoken and nothing is recorded.
C13_TurnState ==
    bridge = "deepgram" =>
        /\ \A t \in 1..nTurns :
              /\ CountRole(state.messages, "user", t) = 1
              /\ CountRole(state.messages, "assistant", t) <= 1
              /\ PendingTurn(t) => CountRole(state.messages, "assistant", t) = 0
        /\ Len(TextsOf(state.messages, "assistant")) + Fallbacks =
               nTurns - Len(turns)
C13_TurnStep ==
    /\ \A i \in 1..MaxTurns :
          (DLlmFirst(i, [kind |-> "answer", calls |-> <<>>])
             \/ DLlmSecond(i, "answer")) =>
              state'.messages =
                  Append(state.messages,
                         Message("assistant", "answer", turns[i].turn))
    /\ \A i \in 1..MaxTurns :
          (DLlmFirst(i, [kind |-> "throw", calls |-> <<>>])
             \/ DLlmSecond(i, "throw")) =>
              /\ state'.messages = state.messages
              /\ Len(tts') = Len(tts) + 1
              /\ tts'[Len(tts')].text = "fallback"
C13_TurnsPerUtterance == []C13_TurnState /\ [][C13_TurnStep]_vars
\* C13 witness: the tool of a turn failed, the error is in the history as
\* its tool message, and the turn ended with its one assistant turn.
C13_Witness ==
    /\ bridge = "deepgram"
    /\ turns = <<>>
    /\ CountRole(state.messages, "user", 1) = 1
    /\ CountRole(state.messages, "assistant", 1) = 1
    /\ \E j \in 1..Len(state.messages) :
          state.messages[j] = ToolMessage("gmail_search", "error", 1)

\* C14: in the proxy the body of closeBoth runs at most once whatever
\* close and error events the two sockets deliver and in whatever order;
\* the closed flag is set exactly when it has run and is never reset; the
\* first call leaves no socket open or connecting, and a later call
\* changes neither the flag nor the socket of the other side.
C14_TeardownState ==
    bridge = "proxy" =>
        /\ pTeardowns <= 1
        /\ closed <=> pTeardowns = 1
        /\ closed => (upstream \in {CLOSING, CLOSED} /\ pclient \in {CLOSING, CLOSED})
C14_TeardownStep ==
    /\ closed => (closed' /\ pTeardowns' = pTeardowns)
    /\ (~closed /\ (PClientClose \/ PClientError \/ PUpstreamClose \/ PUpstreamError)) =>
           (closed' /\ pTeardowns' = 1)
    /\ (closed /\ (PClientClose \/ PClientError)) =>
           (upstream' = upstream /\ pclient' \in {pclient, CLOSED})
    /\ (closed /\ (PUpstreamClose \/ PUpstreamError)) =>
           (pclient' = pclient /\ upstream' \in {upstream, CLOSED})
C14_TeardownIdempotent == []C14_TeardownState /\ [][C14_TeardownStep]_vars
\* C14 witness: the upstream reported an error, which ran the teardown;
\* afterwards both sockets delivered their close events, and the body has
\* still run once.
C14_Witness ==
    /\ bridge = "proxy"
    /\ closed /\ pTeardowns = 1
    /\ upstream = CLOSED /\ pclient = CLOSED
    /\ ~pingInterval
    /\ \E j \in 1..Len(pclientOut) : pclientOut[j].message = "upstream error"

\* C15: once the close handler of the browser socket has run, the
\* Deepgram bridge arms no finalize timer, appends no user turn and starts
\* no request to the language model, whatever the STT socket still
\* delivers.
C15_AfterCloseStep ==
    state.closed =>
        /\ timers' \subseteq timers
        /\ nTurns' = nTurns
        /\ TextsOf(state'.messages, "user") = TextsOf(state.messages, "user")
        /\ Len(turns') <= Len(turns)
C15_NoFinalizeAfterClose == [][C15_AfterCloseStep]_vars

\* C16: every binary frame the proxy receives while the session is not
\* torn down is sent upstream as exactly one input_audio_buffer.append
\* carrying the base64 text of that frame, directly behind what was sent
\* before.
C16_AppendStep ==
    \A f \in PFrames :
        (PClientMessage(f) /\ f.kind = "binary"
                           /\ upstream \in {CONNECTING, OPEN}) =>
            upstreamSent' =
                Append(upstreamSent,
                       PMsg("input_audio_buffer.append", pSeq + 1,
                            Base64(pSeq + 1), EmptyObj))
C16_OneAppendPerFrame == [][C16_AppendStep]_vars

\* the response object a response.create frame supplies ({} when absent)
Supplied(f) == IF f.response.t = "object" THEN f.response.o ELSE EmptyObj

\* C17: for a valid response.create frame the proxy sends one
\* response.create upstream whose response object has exactly the keys
\* modalities, voice, output_audio_format and the keys the caller
\* supplied; a supplied key has the caller's value, a default key that was
\* not supplied has its default.
C17_MergeStep ==
    \A f \in PFrames :
        (PClientMessage(f) /\ f.kind = "value" /\ ResponseCreate(f)
                           /\ upstream = OPEN) =>
            /\ Len(upstreamSent') = Len(upstreamSent) + 1
            /\ SubSeq(upstreamSent', 1, Len(upstreamSent)) = upstreamSent
            /\ LET m == upstreamSent'[Len(upstreamSent')]
                   r == Supplied(f)
               IN /\ m.type = "response.create"
                  /\ m.n = pSeq + 1
                  /\ DOMAIN m.body =
                         {"modalities", "voice", "output_audio_format"}
                             \cup DOMAIN r
                  /\ \A k \in DOMAIN r : m.body[k] = r[k]
                  /\ "modalities" \notin DOMAIN r => m.body["modalities"] = "audio,text"
                  /\ "voice" \notin DOMAIN r => m.body["voice"] = "alloy"
                  /\ "output_audio_format" \notin DOMAIN r =>
                         m.body["output_audio_format"] = "opus"
C17_ResponseMergedPerKey == [][C17_MergeStep]_vars
\* C17 witness: a response.create that supplied its own voice went
\* upstream with that voice and the two other defaults, and one that
\* supplied a key outside the defaults went upstream with all three
\* defaults and that key.
C17_Witness ==
    /\ bridge = "proxy"
    /\ \E j, k \in 1..Len(upstreamSent) :
          /\ upstreamSent[j].type = "response.create"
          /\ DOMAIN upstreamSent[j].body =
                 {"modalities", "voice", "output_audio_format"}
          /\ upstreamSent[j].body["voice"] = "verse"
          /\ upstreamSent[j].body["modalities"] = "audio,text"
          /\ upstreamSent[k].type = "response.create"
          /\ "temperature" \in DOMAIN upstreamSent[k].body
          /\ upstreamSent[k].body["voice"] = "alloy"

\* C18: an interrupt makes the proxy send upstream both a cancel of the
\* response in flight and a clear of the input audio that is not yet
\* committed.
C18_InterruptStep ==
    \A f \in PFrames :
        (PClientMessage(f) /\ f.kind = "value" /\ Interrupt(f)
                           /\ upstream = OPEN) =>
            LET new == SubSeq(upstreamSent', Len(upstreamSent) + 1,
                              Len(upstreamSent'))
            IN /\ \E j \in 1..Len(new) : new[j].type = "response.cancel"
               /\ \E j \in 1..Len(new) : new[j].type = "input_audio_buffer.clear"
C18_InterruptCancelsAndClears == [][C18_InterruptStep]_vars

\* C19: in the queueing bridge session.update is the first message that
\* goes upstream; everything behind it stems from a client frame, in
\* arrival order, so the frames queued before the open come first.
C19_ConfigFirst ==
    bridge = "queue" =>
        /\ openaiSent # <<>> => openaiSent[1] = SessionUpdate0
        /\ \A j \in 2..Len(openaiSent) : openaiSent[j].n > 0
        /\ \A j, k \in 2..Len(openaiSent) :
              j < k => openaiSent[j].n < openaiSent[k].n
\* C19 witness: upstream opened with a frame in the queue; session.update
\* went first, the queued frame second, and a frame that came after the
\* open third.
C19_Witness ==
    /\ bridge = "queue"
    /\ qOpenedAt >= 1
    /\ Len(openaiSent) >= 3
    /\ openaiSent[1] = SessionUpdate0
    /\ openaiSent[2].n <= qOpenedAt
    /\ openaiSent[3].n > qOpenedAt

\* C20: the browser has received ready from the Deepgram bridge only if
\* an upstream connection was made before.
C20_ReadyAfterUpstream ==
    (bridge = "deepgram" /\ wsOut["ready"] > 0) => sttOpened > 0

\* ----------------------------------------------------------------- C21
\* the function_call_output messages sent upstream for a call, and the
\* positions of the upstream messages of one type
QOutputsFor(sent, c) ==
    {j \in 1..Len(sent) : sent[j].type = "function_call_output"
                          /\ sent[j].call_id = c}
QSentOfType(sent, type) == {j \in 1..Len(sent) : sent[j].type = type}
\* a call is complete when "arguments done" arrived for it and no tool
\* execution for it is still awaited
QComplete(c) ==
    /\ CountOf(qLog, c, "response.function_call_arguments.done") > 0
    /\ \A i \in 1..Len(qInflight) : qInflight[i].call_id # c

\* C21: in the queueing bridge, whatever upstream sends, every call_id gets
\* at most one function_call_output, exactly one once the call is complete,
\* and the bridge has asked for as many resumed responses as it has handed
\* over outputs.
C21_OneReportPerCall ==
    bridge = "queue" =>
        /\ \A c \in CallIds :
              /\ Cardinality(QOutputsFor(openaiSent, c)) <= 1
              /\ QComplete(c) => Cardinality(QOutputsFor(openaiSent, c)) = 1
        /\ Cardinality(QSentOfType(openaiSent, "response.create")) =
              Cardinality(QSentOfType(openaiSent, "function_call_output"))

\* ----------------------------------------------------------------- C22
\* the position in a log of upstream events of the first announcement of
\* a call (0 when it was never announced)
AnnouncedAt(log, c, annType) ==
    LET at == {j \in 1..Len(log) : log[j].call_id = c /\ log[j].type = annType}
    IN IF at = {} THEN 0 ELSE CHOOSE j \in at : \A k \in at : j <= k
\* the awaited call i is the one announced first among the awaited calls
FirstAnnounced(inflight, i, log, annType) ==
    \A j \in 1..Len(inflight) :
        AnnouncedAt(log, inflight[i].call_id, annType) <=
            AnnouncedAt(log, inflight[j].call_id, annType)

\* C22: with several tool calls awaited at once, the result and the resume
\* request that follows it go upstream for the call that was announced
\* first, whichever tool execution settles first.
C22_ReportStep ==
    /\ \A i \in 1..Len(qInflight), o \in {"ok", "throw"} :
          QToolReturn(i, o) =>
              FirstAnnounced(qInflight, i, qLog, "response.function_call.created")
    /\ \A i \in 1..Len(tInflight), o \in {"ok", "throw"} :
          TToolReturn(i, o) =>
              FirstAnnounced(tInflight, i, tLog, "response.output_item.added")
C22_ResumeInAnnouncementOrder == [][C22_ReportStep]_vars

\* ----------------------------------------------------------------- C23
\* C23: the queueing bridge forwards every upstream event to the client,
\* the tool-call events it intercepts included: handling an event while
\* the client socket is open appends that event to what the client got.
C23_ForwardStep ==
    \A e \in QEvents :
        (QOpenaiMessage(e) /\ qclient = OPEN) =>
            qForwarded' = Append(qForwarded, qUp + 1)
C23_EveryEventForwarded == [][C23_ForwardStep]_vars

\* ----------------------------------------------------------------- C24
\* C24: the tool bridge forwards upstream events in the order they came
\* in, also the events that arrive while a tool execution is awaited: the
\* arrival indices the client has received after `ready` are increasing.
C24_ForwardedInArrivalOrder ==
    (bridge = "tools" /\ tForwarded # <<>>) => Increasing(Tail(tForwarded))

\* ----------------------------------------------------------------- C25
\* C25: once "arguments done" was handled for a call_id, no later event
\* changes the argument text accumulated for it.
C25_ArgsFrozenStep ==
    \A c \in CallIds :
        (bridge = "queue"
           /\ CountOf(qLog, c, "response.function_call_arguments.done") > 0)
        => pending'[c].args = pending[c].args
C25_ArgsFrozenAfterDone == [][C25_ArgsFrozenStep]_vars

\* ----------------------------------------------------------------- C26
\* C26: once the result of a call was sent upstream, the pending map of
\* the queueing bridge no longer holds an entry for that call_id.
C26_RemoveStep ==
    \A i \in 1..Len(qInflight), o \in {"ok", "throw"} :
        QToolReturn(i, o) => ~pending'[qInflight[i].call_id].present
C26_RemovedOnceReported == [][C26_RemoveStep]_vars

\* ----------------------------------------------------------------- C27
\* the upstream socket of the proxy has closed or reported an error (it
\* leaves CONNECTING/OPEN only then or through closeBoth); the client
\* socket likewise
PUpstreamDown == bridge = "proxy" /\ upstream \in {CLOSING, CLOSED}
PClientDown == bridge = "proxy" /\ pclient \in {CLOSING, CLOSED}
PAllClosed == upstream = CLOSED /\ pclient = CLOSED /\ ~pingInterval

\* C27: in the proxy an upstream close or error is fatal to the session:
\* after it, eventually the upstream socket and the client socket are both
\* closed and the ping timer is cleared; after a client close or error the
\* upstream socket is eventually closed.
C27_TeardownCompletes ==
    /\ PUpstreamDown ~> PAllClosed
    /\ PClientDown ~> (upstream = CLOSED)

\* an upstream error while both sockets were open, the notification sent,
\* teardown run once and complete
C27_Witness ==
    /\ bridge = "proxy"
    /\ PAllClosed
    /\ pTeardowns = 1
    /\ Len(pclientOut) >= 2
    /\ pclientOut[1].type = "ready"
    /\ pclientOut[Len(pclientOut)].type = "error"

\* ----------------------------------------------------------------- C28
\* a close or error event of the STT socket or of a TTS socket
DUpstreamFailure ==
    \/ DSttClose
    \/ DSttError
    \/ \E i \in 1..Len(tts) : DTtsClose(i) \/ DTtsError(i)

\* C28: in the Deepgram bridge a close or error of an upstream socket ends
\* the session: the handler closes the browser socket, leaves no finalize
\* timer armed and sends the browser a notification.
C28_FatalStep ==
    (DUpstreamFailure /\ ws = OPEN) =>
        /\ ws' \in {CLOSING, CLOSED}
        /\ timers' = {}
        /\ wsOut' # wsOut
C28_UpstreamFailureFatal == [][C28_FatalStep]_vars

\* ----------------------------------------------------------------- C29
\* C29: in both realtime bridges every upstream failure, the close event
\* as well as the error event, makes the bridge send the client one more
\* message before it closes the client socket.
C29_NotifyStep ==
    /\ ((PUpstreamClose \/ PUpstreamError) /\ upstream = OPEN /\ pclient = OPEN)
          => /\ Len(pclientOut') = Len(pclientOut) + 1
             /\ pclient' = CLOSING
    /\ ((QOpenaiClose \/ QOpenaiError) /\ openai = OPEN /\ qclient = OPEN)
          => /\ Len(qForwarded') = Len(qForwarded) + 1
             /\ qclient' = CLOSING
C29_NotifiedBeforeClose == [][C29_NotifyStep]_vars

\* ----------------------------------------------------------------- C30
\* C30: the Deepgram bridge does not reconnect: a session opens at most one
\* STT connection, whatever happens to it.
C30_NoSttReconnect ==
    bridge = "deepgram" => sttOpened <= 1

\* ----------------------------------------------------------------- C31
\* C31: when the Deepgram bridge has handled a transcript fragment that
\* carries the final flag, no finalize timer is armed and the transcript
\* buffer is empty, with or without text in that fragment.
C31_FinalStep ==
    \A m \in DSttFrames :
        (m.kind = "json" /\ m.isFinal /\ DSttMessage(m)) =>
            /\ state'.partialTimer = 0
            /\ timers' = {}
            /\ state'.lastPartial = ""
C31_FinalDisarmsAndClears == [][C31_FinalStep]_vars

\* the only STT message so far carried text and the final flag: the timer
\* it armed is disarmed, the buffer was handed to a turn
C31_Witness ==
    /\ bridge = "deepgram"
    /\ dUp = 1
    /\ wsOut["stt.partial"] = 1
    /\ fin.final = 1
    /\ state.partialTimer = 0
    /\ timers = {}
    /\ state.lastPartial = ""

\* ----------------------------------------------------------------- C32
\* C32: the Deepgram bridge has at most one finalize timer pending, and a
\* pending timer is the one state.partialTimer refers to.
C32_SingleTimer ==
    bridge = "deepgram" =>
        /\ Cardinality(timers) <= 1
        /\ timers \subseteq {state.partialTimer}

\* a second fragment re-armed the timer: the first handle is cancelled
C32_Witness ==
    /\ bridge = "deepgram"
    /\ wsOut["stt.partial"] >= 2
    /\ state.partialTimer = 2
    /\ timers = {2}

\* ----------------------------------------------------------------- C33
QInterruptFrame == [kind |-> "interrupt"]
\* the tool messages of the dialog memory
ToolTurns(msgs) == {j \in 1..Len(msgs) : msgs[j].role = "tool"}

\* C33: an interrupt does not cancel a dispatched tool execution.  Handling
\* interrupt changes neither the pending tool calls, nor the executions in
\* progress, nor the conversation history; and a tool execution that
\* settles after an interrupt still has its result reported (upstream in
\* the queueing bridge, as a tool message in the Deepgram bridge).
C33_InterruptStep ==
    /\ QClientMessage(QInterruptFrame) =>
          /\ pending' = pending
          /\ qInflight' = qInflight
          /\ qInvoked' = qInvoked
    /\ DClientMessage(QInterruptFrame) =>
          /\ turns' = turns
          /\ dInvoked' = dInvoked
          /\ state'.messages = state.messages
    /\ \A i \in 1..Len(qInflight), o \in {"ok", "throw"} :
          QToolReturn(i, o) =>
              openaiSent' = openaiSent \o
                  QReported(qInflight[i].call_id,
                            IF o = "ok" THEN "result" ELSE "error")
    /\ \A i \in 1..Len(turns), o \in {"ok", "throw"} :
          DToolReturn(i, o) =>
              /\ Len(state'.messages) > Len(state.messages)
              /\ SubSeq(state'.messages, 1, Len(state.messages)) = state.messages
              /\ state'.messages[Len(state.messages) + 1] =
                    ToolMessage(turns[i].calls[turns[i].k],
                                IF o = "ok" THEN "result" ELSE "error",
                                turns[i].turn)
\* every tool execution the Deepgram bridge started is in progress or has
\* its tool message in history
C33_Dispatched ==
    bridge = "deepgram" =>
        \A j \in 1..Len(dInvoked) :
            \/ \E i \in 1..Len(turns) :
                  /\ turns[i].pc = "tool"
                  /\ turns[i].turn = dInvoked[j].turn
            \/ \E m \in ToolTurns(state.messages) :
                  /\ state.messages[m].turn = dInvoked[j].turn
                  /\ state.messages[m].name = dInvoked[j].name
                  /\ state.messages[m].content \in {"result", "error"}
C33_InterruptKeepsToolRunning ==
    []C33_Dispatched /\ [][C33_InterruptStep]_vars

\* an interrupt arrived while the tool of turn 1 was awaited; the tool
\* then returned, its result is in history and the turn was answered
C33_Witness ==
    /\ bridge = "deepgram"
    /\ interrupted
    /\ turns = <<>>
    /\ \E j, k \in 1..Len(state.messages) :
          /\ j < k
          /\ state.messages[j] = ToolMessage("gmail_search", "result", 1)
          /\ state.messages[k] = Message("assistant", "answer", 1)

\* ----------------------------------------------------------------- C34
\* C34: the browser gets the end marker response.audio.done exactly once
\* for each utterance the Deepgram bridge speaks: no utterance has had
\* more than one end marker sent for it.
C34_OneEndMarker ==
    bridge = "deepgram" => \A i \in 1..Len(tts) : tts[i].dones <= 1

\* ----------------------------------------------------------------- C35
\* C35: in the Deepgram bridge, while a finalize timer is pending the
\* transcript buffer holds text.
C35_ArmedImpliesBuffered ==
    (bridge = "deepgram" /\ timers # {}) => state.lastPartial # ""

\* a timer is pending for a second utterance, after the first was finalized
C35_Witness ==
    /\ bridge = "deepgram"
    /\ nTurns >= 1
    /\ timers # {}
    /\ state.partialTimer \in timers
    /\ state.lastPartial = "hi"

\* ----------------------------------------------------------------- C36
\* C36: the turns of distinct utterances do not interleave in the dialog
\* memory of the Deepgram bridge: every message of an earlier utterance
\* precedes every message of a later one.
C36_TurnsNotInterleaved ==
    bridge = "deepgram" =>
        \A j, k \in 1..Len(state.messages) :
            j < k => state.messages[j].turn <= state.messages[k].turn

\* ----------------------------------------------------------------- C37
\* C37: once the close handler of the browser socket has run, the Deepgram
\* bridge opens no further upstream connection, neither to the speech
\* recognition nor to the speech synthesis.
C37_AfterCloseStep ==
    (bridge = "deepgram" /\ state.closed) =>
        /\ sttOpened' = sttOpened
        /\ Len(tts') = Len(tts)
C37_NoConnectionAfterClose == [][C37_AfterCloseStep]_vars

\* ----------------------------------------------------------------- C38
\* C38: in the queueing bridge an "arguments done" event for a call_id
\* without a pending entry runs no tool and sends nothing upstream.
C38_UnannouncedStep ==
    \A e \in QDone :
        (QOpenaiMessage(e) /\ ~pending[e.call_id].present) =>
            /\ qInvoked' = qInvoked
            /\ qInflight' = qInflight
            /\ openaiSent' = openaiSent
            /\ clientQueue' = clientQueue
C38_UnannouncedDoneIgnored == [][C38_UnannouncedStep]_vars

\* ----------------------------------------------------------------- C39
\* the answers whose utterance has had its end marker sent
AnswersEnded == {i \in 1..Len(tts) : tts[i].text = "answer" /\ tts[i].dones >= 1}

\* C39: the Deepgram bridge sends the turn-complete events of an assistant
\* turn (response.audio_transcript.done, response.done) only after the
\* audio of its utterance has ended: there are never more completed turns
\* announced than answers whose end marker was sent.
C39_DoneAfterAudio ==
    bridge = "deepgram" =>
        /\ wsOut["response.done"] <= Cardinality(AnswersEnded)
        /\ wsOut["response.audio_transcript.done"] <= Cardinality(AnswersEnded)

====
